---- MODULE Spec2Model ----
(***************************************************************************)
(* pdfesign: the signing engine signPdf (src/unnamed/part_000).            *)
(*                                                                         *)
(* A call of signPdf is a linear run of steps: load, build the signature   *)
(* dictionary, attach the widget, draw the stamp, save, locate the         *)
(* /ByteRange placeholder, find the Contents hex string, define and patch  *)
(* the byte range, hash and sign, write the signature.                     *)
(*                                                                         *)
(* Buffers are sequences of one-character strings; offsets are 0-based as  *)
(* in the source, so byte i of a buffer b is b[i + 1].                     *)
(*                                                                         *)
(* pdf-lib and node-forge are libraries outside the repository.  Their     *)
(* effects are modelled as the calls of the source use them: dictionaries  *)
(* are records, save() yields one of a bounded set of serialisations, and  *)
(* SHA-256 is an ideal hash (the digest of a byte string is the byte       *)
(* string itself under a tag, so two digests agree only on equal input).   *)
(***************************************************************************)
EXTENDS Integers, Sequences, FiniteSets, TLC

(***************************************************************************)
(* Bounds of the model.                                                    *)
(***************************************************************************)
\* Decimal digits of the sentinel numbers of the placeholder /ByteRange
\* (the source writes 9999999999, ten digits).
SentinelDigits == 2
\* Number of "0" characters reserved in the Contents hex string
\* (the source reserves 32768).
SignatureLength == 4
\* Longest DER encoding of the CMS SignedData, in bytes.
MaxDerLen == 3
\* Longest run of tokens that the objects of the input document put in
\* front of the new signature dictionary in the serialised buffer.
MaxPrefix == 3

(***************************************************************************)
(* Characters and text.                                                    *)
(***************************************************************************)
Digits == <<"0", "1", "2", "3", "4", "5", "6", "7", "8", "9">>

HexDigits == <<"0", "1", "2", "3", "4", "5", "6", "7", "8", "9",
               "a", "b", "c", "d", "e", "f">>

\* Array.prototype.join / template literal rendering of an integer.
RECURSIVE ToDec(_)
ToDec(n) ==
  IF n < 0 THEN <<"-">> \o ToDec(-n)
  ELSE IF n < 10 THEN <<Digits[n + 1]>>
  ELSE ToDec(n \div 10) \o <<Digits[(n % 10) + 1]>>

\* String.prototype.repeat
Repeat(ch, n) == [i \in 1..n |-> ch]

RECURSIVE Flatten(_)
Flatten(ss) == IF ss = <<>> THEN <<>> ELSE Head(ss) \o Flatten(Tail(ss))

ContentsKey == <<"/", "C", "o", "n", "t", "e", "n", "t", "s">>

ByteRangeKey == <<"/", "B", "y", "t", "e", "R", "a", "n", "g", "e">>

\* The decimal text of the sentinel number 9999999999 (SentinelDigits nines).
SentinelText == Repeat("9", SentinelDigits)

EofMarker == <<"%", "%", "E", "O", "F">>

IsSpace(ch) == ch \in {" ", "\n"}

Min(S) == CHOOSE x \in S : \A y \in S : x <= y

Max(S) == CHOOSE x \in S : \A y \in S : x >= y

(***************************************************************************)
(* Buffer operations (the "buffer" package, as signPdf calls them).        *)
(***************************************************************************)
\* lit occurs in buf at 0-based offset i
OccursAt(buf, lit, i) ==
  /\ i >= 0
  /\ i + Len(lit) <= Len(buf)
  /\ \A k \in 1..Len(lit) : buf[i + k] = lit[k]

\* Buffer.indexOf(lit, byteOffset): a negative byteOffset counts from the end.
BufIndexOf(buf, lit, byteOffset) ==
  LET off0 == IF byteOffset < 0 THEN Len(buf) + byteOffset ELSE byteOffset
      off  == IF off0 < 0 THEN 0 ELSE off0
      hits == {i \in off..(Len(buf) - Len(lit)) : OccursAt(buf, lit, i)}
  IN  IF hits = {} THEN -1 ELSE Min(hits)

\* Buffer.lastIndexOf(lit, byteOffset): the last occurrence starting at or
\* before byteOffset (byteOffset >= 0 at the only call).
BufLastIndexOf(buf, lit, byteOffset) ==
  LET hits == {i \in 0..byteOffset : OccursAt(buf, lit, i)}
  IN  IF hits = {} THEN -1 ELSE Max(hits)

\* Buffer.subarray(start, end): negative indices count from the end, both
\* are clamped to the buffer.
Clamp(buf, i) ==
  LET j == IF i < 0 THEN Len(buf) + i ELSE i
  IN  IF j < 0 THEN 0 ELSE IF j > Len(buf) THEN Len(buf) ELSE j

Subarray(buf, start, end) ==
  LET s == Clamp(buf, start)
      e == Clamp(buf, end)
  IN  IF e <= s THEN <<>> ELSE [k \in 1..(e - s) |-> buf[s + k]]

\* A plausible slip: the bytes are spliced in, so the target grows.
BufferCopyInserting(source, target, targetStart) ==
  Subarray(target, 0, targetStart) \o source
    \o Subarray(target, targetStart, Len(target))

\* source.copy(target, targetStart): overwrites in place, never past the end
\* of target, and never changes the length of target.
BufferCopy(source, target, targetStart) ==
  [k \in 1..Len(target) |->
     IF k - 1 >= targetStart /\ k - 1 < targetStart + Len(source)
     THEN source[k - targetStart]
     ELSE target[k]]

(***************************************************************************)
(* The placeholder pattern of step 8:                                      *)
(*   /\/ByteRange\s*\[\s*0\s+9999999999\s+9999999999\s+9999999999\s*\]/    *)
(***************************************************************************)
RECURSIVE SkipSpaces(_, _)
SkipSpaces(buf, i) ==
  IF i < Len(buf) /\ IsSpace(buf[i + 1]) THEN SkipSpaces(buf, i + 1) ELSE i

\* The offset just past a match of the pattern that starts at offset i,
\* or -1 when the pattern does not match there.  Every \s* and \s+ of the
\* pattern is followed by a literal that is no white space, so the greedy
\* left-to-right scan decides the match.
PlaceholderMatchEnd(buf, i) ==
  LET d  == Len(SentinelText)
      i1 == i + Len(ByteRangeKey)
      i2 == SkipSpaces(buf, i1)
      i3 == SkipSpaces(buf, i2 + 1)
      i4 == SkipSpaces(buf, i3 + 1)
      i5 == SkipSpaces(buf, i4 + d)
      i6 == SkipSpaces(buf, i5 + d)
      i7 == SkipSpaces(buf, i6 + d)
  IN  IF /\ OccursAt(buf, ByteRangeKey, i)
         /\ OccursAt(buf, <<"[">>, i2)
         /\ OccursAt(buf, <<"0">>, i3)
         /\ i4 > i3 + 1
         /\ OccursAt(buf, SentinelText, i4)
         /\ i5 > i4 + d
         /\ OccursAt(buf, SentinelText, i5)
         /\ i6 > i5 + d
         /\ OccursAt(buf, SentinelText, i6)
         /\ OccursAt(buf, <<"]">>, i7)
      THEN i7 + 1
      ELSE -1

\* All offsets at which the pattern matches.
PlaceholderMatches(buf) ==
  {i \in 0..(Len(buf) - 1) : PlaceholderMatchEnd(buf, i) # -1}

NoMatch == [found |-> FALSE, index |-> -1, length |-> 0]

\* placeholderPattern.exec(...): the leftmost match, or null.
PlaceholderExec(buf) ==
  LET ms == PlaceholderMatches(buf)
  IN  IF ms = {} THEN NoMatch
      ELSE [found |-> TRUE, index |-> Min(ms),
            length |-> PlaceholderMatchEnd(buf, Min(ms)) - Min(ms)]

(***************************************************************************)
(* The signature dictionary and its serialisation.                         *)
(***************************************************************************)
\* PDFNumber.of(9999999999)
RECURSIVE Pow10(_)
Pow10(n) == IF n = 0 THEN 1 ELSE 10 * Pow10(n - 1)

Sentinel == Pow10(SentinelDigits) - 1

ReferenceDict ==
  [Type |-> "SigRef", TransformMethod |-> "DocMDP", DigestMethod |-> "MD5",
   TransformParams |-> [Type |-> "TransformParams", P |-> 1, V |-> "1.2"]]

\* pdfDoc.context.obj({Type: "Sig", ...}) of step 1
NewSignatureDict ==
  [Type |-> "Sig", Filter |-> "Adobe.PPKLite",
   SubFilter |-> "adbe.pkcs7.detached",
   Contents |-> Repeat("0", SignatureLength),
   ByteRange |-> <<0, Sentinel, Sentinel, Sentinel>>,
   Reference |-> <<>>]

\* The text of an array of numbers: "[ 0 9 9 9 ]" as pdf-lib writes it, or
\* "[0 9 9 9]" as a serialiser that drops optional white space writes it.
ArrayText(nums, tight) ==
  LET body == Flatten([k \in 1..Len(nums) |->
                 (IF k = 1 THEN <<>> ELSE <<" ">>) \o ToDec(nums[k])])
  IN  IF tight THEN <<"[">> \o body \o <<"]">>
      ELSE <<"[", " ">> \o body \o <<" ", "]">>

ByteRangeEntry(nums, tight) ==
  ByteRangeKey \o (IF tight THEN <<>> ELSE <<" ">>) \o ArrayText(nums, tight)

\* What the objects of the input document can put in front of the new
\* signature dictionary: a /Contents key, the delimiters of a dictionary or
\* hex string, or text that itself matches the placeholder pattern.
PrefixKinds == {"K", "<", ">", "P"}

TokenBytes(t) ==
  CASE t = "K" -> ContentsKey
    [] t = "<" -> <<"<">>
    [] t = ">" -> <<">">>
    [] t = "P" -> ByteRangeEntry(<<0, Sentinel, Sentinel, Sentinel>>, FALSE)

Prefixes == UNION {[1..n -> PrefixKinds] : n \in 0..MaxPrefix}

PrefixBytes(prefix) == Flatten([k \in 1..Len(prefix) |-> TokenBytes(prefix[k])])

\* How save() writes the new signature dictionary:
\*   "plain"  as pdf-lib does with useObjectStreams: false
\*   "tight"  the same, without optional white space
\*   "objstm" inside a compressed object stream (no plain text)
Layouts == {"plain", "tight", "objstm"}

SigDictBytes(sd, kind) ==
  IF kind = "objstm" THEN <<"x">>
  ELSE LET tight == (kind = "tight")
       IN  ContentsKey \o (IF tight THEN <<>> ELSE <<" ">>)
             \o <<"<">> \o sd.Contents \o <<">">> \o <<"\n">>
             \o ByteRangeEntry(sd.ByteRange, tight)

\* One serialisation: the bytes, and where the new signature dictionary's
\* hex string opens and its /ByteRange entry starts (-1 when not in plain
\* text).
Serialize(sd, prefix, kind) ==
  LET pre  == PrefixBytes(prefix)
      body == SigDictBytes(sd, kind)
      lead == Len(ContentsKey) + (IF kind = "tight" THEN 0 ELSE 1)
  IN  [bytes   |-> pre \o body \o EofMarker,
       kind    |-> kind,
       sigOpen |-> IF kind = "objstm" THEN -1 ELSE Len(pre) + lead,
       sigByteRange |->
         IF kind = "objstm" THEN -1
         ELSE Len(pre) + lead + 1 + Len(sd.Contents) + 2]

Serializations(sd) ==
  {Serialize(sd, prefix, kind) : prefix \in Prefixes, kind \in Layouts}

(***************************************************************************)
(* Documents (the pdf-lib object graph, as far as signPdf reads and writes *)
(* it) and the arguments of a call.                                        *)
(***************************************************************************)
Absent == [present |-> FALSE, items |-> <<>>]

Array(items) == [present |-> TRUE, items |-> items]

NoFlags == [present |-> FALSE, value |-> 0]

Flags(v) == [present |-> TRUE, value |-> v]

Page(ref, annots) == [ref |-> ref, Annots |-> annots, drawn |-> <<>>]

NoAcroForm == [present |-> FALSE, SigFlags |-> NoFlags, Fields |-> Absent]

AcroForm(flags, fields) ==
  [present |-> TRUE, SigFlags |-> flags, Fields |-> fields]

NoPerms == [present |-> FALSE, DocMDP |-> "none"]

\* The documents a call is given: unsigned without a form; with a form, a
\* text field and annotations; signed and locked by an earlier call; with a
\* form dictionary that has no /Fields.
InputDocs ==
  { [pages |-> <<Page("page1", Absent)>>,
     acroForm |-> NoAcroForm, perms |-> NoPerms],
    [pages |-> <<Page("page1", Array(<<"a1">>)), Page("page2", Array(<<>>))>>,
     acroForm |-> AcroForm(NoFlags, Array(<<"tx1">>)), perms |-> NoPerms],
    [pages |-> <<Page("page1", Array(<<"w0">>)), Page("page2", Absent)>>,
     acroForm |-> AcroForm(Flags(1), Array(<<"tx1", "w0">>)),
     perms |-> [present |-> TRUE, DocMDP |-> "sig0"]],
    [pages |-> <<Page("page1", Absent)>>,
     acroForm |-> AcroForm(Flags(3), Absent), perms |-> NoPerms] }

\* /FT of the field a reference of /Fields points to
FieldType(ref) == IF ref \in {"w0", "widgetRef"} THEN "Sig" ELSE "Tx"

NoVisual ==
  [present |-> FALSE, pageIndex |-> 0, rect |-> <<0, 0, 0, 0>>,
   imagePng |-> FALSE]

Visuals ==
  { NoVisual,
    [present |-> TRUE, pageIndex |-> 0, rect |-> <<10, 20, 30, 40>>,
     imagePng |-> FALSE],
    [present |-> TRUE, pageIndex |-> 1, rect |-> <<10, 20, 30, 40>>,
     imagePng |-> TRUE] }

\* SignerCredentials: the leaf alone, or the leaf with a chain.
CredentialChoices ==
  { [privateKey |-> "key", certificate |-> "leaf", certificates |-> <<>>],
    [privateKey |-> "key", certificate |-> "leaf",
     certificates |-> <<"ca1", "ca2">>] }

Calls ==
  [pdfDoc : InputDocs, credentials : CredentialChoices,
   visualSignature : Visuals, lockDocument : BOOLEAN]

(***************************************************************************)
(* Steps 1 to 5 on the object graph.                                       *)
(***************************************************************************)
\* A plausible slip: the signature gets its /Reference but the catalog's
\* /Perms is left alone.
LockCatalogSkipped(d, lock, ref) == d

\* Lines 166-172: catalog.set("Perms", {DocMDP: signatureRef}) when locking.
LockCatalog(d, lock, ref) ==
  IF lock THEN [d EXCEPT !.perms = [present |-> TRUE, DocMDP |-> ref]]
  ELSE d

\* Lines 139-160: signatureDict.set("Reference", [referenceDict]) when
\* locking.
LockSignature(sd, lock) ==
  IF lock THEN [sd EXCEPT !.Reference = <<ReferenceDict>>] ELSE sd

\* The placement rectangle taken as it is, [x, y, w, h].
WidgetRectAsGiven(vs) == IF vs.present THEN vs.rect ELSE <<0, 0, 0, 0>>

\* Lines 176-180
WidgetRect(vs) ==
  IF vs.present
  THEN <<vs.rect[1], vs.rect[2], vs.rect[1] + vs.rect[3],
         vs.rect[2] + vs.rect[4]>>
  ELSE <<0, 0, 0, 0>>

\* Line 117: visualSignature?.pageIndex || 0
TargetPageIndex(vs) == IF vs.present THEN vs.pageIndex ELSE 0

\* A plausible slip: the new reference is put in front.
PushRefFront(arr, ref) == Array(<<ref>> \o arr.items)

\* Lines 197-202 and 215-220: look the array up, create it when absent,
\* push.
PushRef(arr, ref) ==
  IF arr.present THEN Array(Append(arr.items, ref)) ELSE Array(<<ref>>)

\* A plausible slip: the flags are written only into a form that has none.
SetSigFlagsIfAbsent(form) ==
  IF form.SigFlags.present THEN form ELSE [form EXCEPT !.SigFlags = Flags(3)]

\* Line 213
SetSigFlags(form) == [form EXCEPT !.SigFlags = Flags(3)]

\* Lines 205-209: the form of the catalog, or a new one {Fields: []}.
FormOf(d) ==
  IF d.acroForm.present THEN d.acroForm ELSE AcroForm(NoFlags, Array(<<>>))

(***************************************************************************)
(* Steps 9 to 13 on the serialised buffer.                                 *)
(***************************************************************************)
\* The first /Contents of the buffer, wherever the match is.
FindContentsKeyFromStart(buf, byteRangePos) == BufIndexOf(buf, ContentsKey, 0)

\* Lines 252-254: the nearest /Contents before the match, else the first
\* after it, else -1.
FindContentsKey(buf, byteRangePos) ==
  LET back == BufLastIndexOf(buf, ContentsKey, byteRangePos)
  IN  IF back # -1 THEN back ELSE BufIndexOf(buf, ContentsKey, byteRangePos)

\* Lines 257-263: the first "<" at or after offset i, or -1.
RECURSIVE ScanForOpen(_, _)
ScanForOpen(buf, i) ==
  IF i >= Len(buf) THEN -1
  ELSE IF buf[i + 1] = "<" THEN i
  ELSE ScanForOpen(buf, i + 1)

\* A plausible slip: the second span starts on the ">" itself.
Part2StartOnClose(contentsEnd) == contentsEnd

\* Line 268
Part2Start(contentsEnd) == contentsEnd + 1

\* Lines 267-271
DefineByteRanges(buf, contentsStart, contentsEnd) ==
  <<0, contentsStart, Part2Start(contentsEnd),
    Len(buf) - Part2Start(contentsEnd)>>

\* The range text without the space after the key.
NewByteRangeStrTight(br) == ByteRangeKey \o ArrayText(br, TRUE)

\* Line 274
NewByteRangeStr(br) == ByteRangeKey \o <<" ">> \o ArrayText(br, TRUE)

\* A plausible slip: the delimiters are counted as room for the signature.
AvailableSpaceWithDelimiters(contentsStart, contentsEnd) ==
  contentsEnd - contentsStart + 2

\* Line 314
AvailableSpace(contentsStart, contentsEnd) == contentsEnd - contentsStart - 2

(***************************************************************************)
(* Digest and CMS (node-forge).                                            *)
(***************************************************************************)
Sha256(bytes) == <<"sha256", bytes>>

\* A SignedData that embeds the leaf certificate only.
NewSignedDataLeafOnly(cred) ==
  [content |-> <<>>,
   certificates |-> <<cred.certificate>>,
   signers |-> << [key |-> cred.privateKey,
                   certificate |-> cred.certificate,
                   digestAlgorithm |-> "sha256",
                   authenticatedAttributes |->
                     << [type |-> "contentType", value |-> <<"data">>],
                        [type |-> "messageDigest", value |-> <<>>],
                        [type |-> "signingTime", value |-> <<"now">>] >>] >>]

\* Lines 290-307: createSignedData, content "", addCertificate for the leaf
\* and for each chain certificate, addSigner.
NewSignedData(cred) ==
  [content |-> <<>>,
   certificates |-> <<cred.certificate>> \o cred.certificates,
   signers |-> << [key |-> cred.privateKey,
                   certificate |-> cred.certificate,
                   digestAlgorithm |-> "sha256",
                   authenticatedAttributes |->
                     << [type |-> "contentType", value |-> <<"data">>],
                        [type |-> "messageDigest", value |-> <<>>],
                        [type |-> "signingTime", value |-> <<"now">>] >>] >>]

\* Line 309, p7.sign({detached: true}): forge fills every messageDigest
\* attribute with the digest of p7.content.
P7Sign(p7) ==
  [p7 EXCEPT !.signers =
     [i \in 1..Len(p7.signers) |->
        [p7.signers[i] EXCEPT !.authenticatedAttributes =
           [j \in 1..Len(p7.signers[i].authenticatedAttributes) |->
              LET a == p7.signers[i].authenticatedAttributes[j]
              IN  IF a.type = "messageDigest"
                  THEN [a EXCEPT !.value = Sha256(p7.content)]
                  ELSE a]]]]

\* The message-digest attribute of the first signer of a signed p7.
MessageDigestOf(p7) ==
  LET attrs == p7.signers[1].authenticatedAttributes
      j     == CHOOSE k \in 1..Len(attrs) : attrs[k].type = "messageDigest"
  IN  attrs[j].value

\* Line 311, forge.asn1.toDer(p7.toAsn1()).getBytes(): a SEQUENCE (tag
\* 0x30) of n bytes; n depends on the key and certificate sizes.
ToDer(p7, n) ==
  [i \in 1..n |-> IF i = 1 THEN 48 ELSE 128 + Len(p7.certificates)]

\* Line 312, forge.util.bytesToHex
BytesToHex(bytes) ==
  Flatten([i \in 1..Len(bytes) |->
             <<HexDigits[(bytes[i] \div 16) + 1], HexDigits[(bytes[i] % 16) + 1]>>])

(***************************************************************************)
(* State of one call of signPdf.                                           *)
(***************************************************************************)
VARIABLES
  call,             \* the arguments: pdfDoc (the document of pdfBytes),
                    \* credentials, visualSignature, lockDocument
  pc,               \* the step the call is at
  pdfDoc,           \* the loaded document
  signatureDict,    \* the signature dictionary, registered as "sigRef"
  widgetDict,       \* the widget annotation, registered as "widgetRef"
  saved,            \* pdfBytesWithPlaceholder, and where save() put the
                    \* new signature dictionary in it
  pdfBuffer,        \* the buffer that is patched and returned
  match,            \* the placeholder match (byteRangePos, byteRangeLength)
  contentsKeyPos,
  contentsStart,
  contentsEnd,
  byteRange,
  md,               \* the digest computed in step 12
  p7,               \* the CMS SignedData
  rawSignature,     \* its DER bytes
  hexSignature,
  result            \* what the call returned or threw

(***************************************************************************)
(* State of getExistingSignatures (lines 29-98), called twice on the same  *)
(* bytes.                                                                  *)
(***************************************************************************)
VARIABLES
  insInput,         \* pdfBytes, as the document they hold
  insRun,           \* 1 for the first call, 2 for the second
  insPc,            \* the step the call is at
  insFields,        \* form.getFields()
  insIdx,           \* the position of the for loop in insFields
  insResults,       \* results
  insReturned,      \* what the call returned or threw
  insFirst          \* what the first call returned

signVars ==
  <<call, pc, pdfDoc, signatureDict, widgetDict, saved, pdfBuffer, match,
    contentsKeyPos, contentsStart, contentsEnd, byteRange, md, p7,
    rawSignature, hexSignature, result>>

insVars ==
  <<insInput, insRun, insPc, insFields, insIdx, insResults, insReturned,
    insFirst>>

(***************************************************************************)
(* State of two calls of signPdf under way at once.  JavaScript runs the   *)
(* code between two awaits without interruption, so a call is at one of    *)
(* its awaits: load (line 114), embedPng (line 224), save (line 234).      *)
(***************************************************************************)
VARIABLES
  twoBytes,         \* the pdfBytes buffers the caller holds, each as the
                    \* document it encodes
  twoCall,          \* per call: its arguments, the await it is at, the
                    \* PDFDocument and the Buffer it holds, its result
  twoDocs,          \* the PDFDocument objects, by identity
  twoBufs           \* the Buffer objects, by identity

twoVars == <<twoBytes, twoCall, twoDocs, twoBufs>>

(***************************************************************************)
(* State of a document that is signed, and whose signed bytes are then     *)
(* inspected or signed again.                                              *)
(***************************************************************************)
VARIABLES
  reArgs,           \* the arguments of the first and of the second call of
                    \* signPdf, with what Date.now() returns in each
  rePc,             \* what has been done with the document
  reFirst,          \* what the first call returned or threw
  reSecond          \* what the second call returned or threw

reVars == <<reArgs, rePc, reFirst, reSecond>>

\* No document is being signed and handed on.
ResignIdle ==
  /\ reArgs = <<>>
  /\ rePc = "idle"
  /\ reFirst = <<>>
  /\ reSecond = <<>>

(***************************************************************************)
(* State of SignatureModal's handleP12Parse, and of the SignedData that    *)
(* signPdf builds from the credentials it hands on.                        *)
(***************************************************************************)
VARIABLES
  p12File,          \* the chosen file: whether it opens with the password,
                    \* and its safeContents, each a sequence of safeBags
  p12Pc,            \* where handleP12Parse is
  safeContentsIdx,  \* position of the outer loop (line 149)
  safeBagIdx,       \* position of the inner loop (line 150)
  certBag,          \* line 148
  identity,         \* React state of the modal
  error,            \* React state of the modal
  isLoading,        \* React state of the modal
  p12SignedData     \* the p7 that signPdf builds from identity.credentials

p12Vars == <<p12File, p12Pc, safeContentsIdx, safeBagIdx, certBag, identity,
             error, isLoading, p12SignedData>>

NoFile == [opens |-> FALSE, safeContents |-> <<>>]

NoBag == [type |-> "null", value |-> "null"]

NoIdentity ==
  [commonName |-> "", issuer |-> "",
   credentials |-> [privateKey |-> "", certificate |-> "",
                    certificates |-> <<>>]]

\* No P12 file is being opened.
P12Idle ==
  /\ p12File = NoFile
  /\ p12Pc = "idle"
  /\ safeContentsIdx = 0
  /\ safeBagIdx = 0
  /\ certBag = NoBag
  /\ identity = NoIdentity
  /\ error = "null"
  /\ isLoading = FALSE
  /\ p12SignedData = <<>>

(***************************************************************************)
(* State of the App component (App.tsx): its React state, the             *)
(* continuations that wait for a promise, an image or a timer, and what    *)
(* it handed to the browser for download.                                  *)
(***************************************************************************)
VARIABLES
  file,               \* the file shown, or "null"
  pdfBytes,           \* the bytes kept for signing, as the file they are
                      \* the content of, or "null"
  signatures,         \* the placed signatures
  existingSignatures, \* what getExistingSignatures found
  isSigning,
  modalOpened,
  currentSignature,   \* data URL of the prepared image, or "null"
  signingCredentials, \* the credentials from the modal, or "null"
  shouldLock,
  isExporting,
  drops,              \* calls of handleDrop waiting at an await
  imgLoads,           \* images created by handleAddSignature whose onload
                      \* has not run yet
  exports             \* calls of handleDownload past setIsExporting(true)
                      \* whose timer has not run yet, each with what it
                      \* read from the state and what it has done

appVars == <<file, pdfBytes, signatures, existingSignatures, isSigning,
             modalOpened, currentSignature, signingCredentials, shouldLock,
             isExporting, drops, imgLoads, exports>>

\* The state of useState's initial values (lines 38-58), nothing pending.
AppIdle ==
  /\ file = "null"
  /\ pdfBytes = "null"
  /\ signatures = <<>>
  /\ existingSignatures = <<>>
  /\ isSigning = FALSE
  /\ modalOpened = FALSE
  /\ currentSignature = "null"
  /\ signingCredentials = "null"
  /\ shouldLock = FALSE
  /\ isExporting = FALSE
  /\ drops = {}
  /\ imgLoads = {}
  /\ exports = {}

\* The state of the user interface and of what is built on the library.
restVars == <<reVars, p12Vars, appVars>>

RestIdle == ResignIdle /\ P12Idle /\ AppIdle

vars == <<signVars, insVars, twoVars, restVars>>

\* The variables that signPdf alone, getExistingSignatures alone, and a
\* pair of calls leave as they are.
OutsideSign == <<insVars, twoVars, restVars>>

OutsideInspect == <<signVars, twoVars, restVars>>

OutsideTwo == <<signVars, insVars, restVars>>

\* What signing a document again or inspecting it leaves as it is, besides
\* the three groups above.
OutsideResign == <<p12Vars, appVars>>

OutsideP12 == <<signVars, insVars, twoVars, reVars, appVars>>

OutsideApp == <<signVars, insVars, twoVars, reVars, p12Vars>>

\* No pair of calls is under way.
TwoIdle ==
  /\ twoBytes = <<>>
  /\ twoCall = <<>>
  /\ twoDocs = <<>>
  /\ twoBufs = <<>>

NoInput == [valid |-> FALSE, pages |-> <<>>, fields |-> <<>>]

NoneReturned == [kind |-> "pending", value |-> <<>>]

\* No call of getExistingSignatures is under way.
InspectorIdle ==
  /\ insInput = NoInput
  /\ insRun = 0
  /\ insPc = "idle"
  /\ insFields = <<>>
  /\ insIdx = 0
  /\ insResults = <<>>
  /\ insReturned = NoneReturned
  /\ insFirst = NoneReturned

NoDoc == [pages |-> <<>>, acroForm |-> NoAcroForm, perms |-> NoPerms]

NoWidget ==
  [Type |-> "none", Subtype |-> "none", FT |-> "none", Rect |-> <<0, 0, 0, 0>>,
   V |-> "none", T |-> "none", F |-> 0, P |-> "none"]

NotSaved ==
  [bytes |-> <<>>, kind |-> "none", sigOpen |-> -1, sigByteRange |-> -1]

NoSignedData == [content |-> <<>>, certificates |-> <<>>, signers |-> <<>>]

Pending == [kind |-> "pending", error |-> "", bytes |-> <<>>]

Init ==
  /\ call \in Calls
  /\ pc = "load"
  /\ pdfDoc = NoDoc
  /\ signatureDict = NewSignatureDict
  /\ widgetDict = NoWidget
  /\ saved = NotSaved
  /\ pdfBuffer = <<>>
  /\ match = NoMatch
  /\ contentsKeyPos = -1
  /\ contentsStart = -1
  /\ contentsEnd = -1
  /\ byteRange = <<0, 0, 0, 0>>
  /\ md = Sha256(<<>>)
  /\ p7 = NoSignedData
  /\ rawSignature = <<>>
  /\ hexSignature = <<>>
  /\ result = Pending
  /\ InspectorIdle
  /\ TwoIdle
  /\ RestIdle

\* A failure handled by going back to the save step.
ThrowRetrying(msg) ==
  /\ pc' = "save"
  /\ result' = result

\* throw new Error(msg): the call ends and returns nothing.
Throw(msg) ==
  /\ pc' = "done"
  /\ result' = [kind |-> "thrown", error |-> msg, bytes |-> <<>>]

\* Line 114
Load ==
  /\ pc = "load"
  /\ UNCHANGED OutsideSign
  /\ pdfDoc' = call.pdfDoc
  /\ pc' = "build"
  /\ UNCHANGED <<call, signatureDict, widgetDict, saved, pdfBuffer, match,
                 contentsKeyPos, contentsStart, contentsEnd, byteRange, md,
                 p7, rawSignature, hexSignature, result>>

\* Line 114: PDFDocument.load rejects the bytes.
LoadFails ==
  /\ pc = "load"
  /\ UNCHANGED OutsideSign
  /\ Throw("PDFDocument.load failed")
  /\ UNCHANGED <<call, pdfDoc, signatureDict, widgetDict, saved, pdfBuffer,
                 match, contentsKeyPos, contentsStart, contentsEnd, byteRange,
                 md, p7, rawSignature, hexSignature>>

\* Lines 116-172: the signature dictionary and the DocMDP lock.
BuildSignatureDict ==
  /\ pc = "build"
  /\ UNCHANGED OutsideSign
  /\ signatureDict' = LockSignature(NewSignatureDict, call.lockDocument)
  /\ pdfDoc' = LockCatalog(pdfDoc, call.lockDocument, "sigRef")
  /\ pc' = "attach"
  /\ UNCHANGED <<call, widgetDict, saved, pdfBuffer, match, contentsKeyPos,
                 contentsStart, contentsEnd, byteRange, md, p7, rawSignature, hexSignature,
                 result>>

\* Lines 116-117: pageIndex names no page of the document.
PageMissing(doc, vs) == TargetPageIndex(vs) >= Len(doc.pages)

\* Lines 183-192: the widget annotation, merged with the field.
NewWidgetDict(doc, vs) ==
  [Type |-> "Annot", Subtype |-> "Widget", FT |-> "Sig",
   Rect |-> WidgetRect(vs), V |-> "sigRef", T |-> "Signature-now", F |-> 4,
   P |-> doc.pages[TargetPageIndex(vs) + 1].ref]

\* Lines 194-220: the widget in the page's /Annots, the form's /SigFlags
\* and /Fields.
WithWidget(doc, vs) ==
  LET idx  == TargetPageIndex(vs)
      page == doc.pages[idx + 1]
      form == SetSigFlags(FormOf(doc))
  IN  [doc EXCEPT
         !.pages[idx + 1].Annots = PushRef(page.Annots, "widgetRef"),
         !.acroForm = [form EXCEPT !.Fields =
                         PushRef(form.Fields, "widgetRef")]]

\* Lines 222-231: the stamp drawn on the page when an image is supplied.
WithStamp(doc, vs) ==
  IF vs.present /\ vs.imagePng
  THEN [doc EXCEPT !.pages[vs.pageIndex + 1].drawn =
          Append(@, [x |-> vs.rect[1], y |-> vs.rect[2],
                     width |-> vs.rect[3], height |-> vs.rect[4]])]
  ELSE doc

\* Lines 175-220: the widget, the page's /Annots, the form's /SigFlags and
\* /Fields.  page.ref throws when pageIndex names no page.
AttachWidget ==
  /\ pc = "attach"
  /\ UNCHANGED OutsideSign
  /\ IF PageMissing(pdfDoc, call.visualSignature)
     THEN /\ Throw("TypeError: page is undefined")
          /\ UNCHANGED <<widgetDict, pdfDoc>>
     ELSE /\ widgetDict' = NewWidgetDict(pdfDoc, call.visualSignature)
          /\ pdfDoc' = WithWidget(pdfDoc, call.visualSignature)
          /\ pc' = "stamp"
          /\ UNCHANGED result
  /\ UNCHANGED <<call, signatureDict, saved, pdfBuffer, match, contentsKeyPos,
                 contentsStart, contentsEnd, byteRange, md, p7, rawSignature, hexSignature>>

\* Lines 222-231: embedPng and drawImage when an image is supplied.
DrawStamp ==
  /\ pc = "stamp"
  /\ UNCHANGED OutsideSign
  /\ pdfDoc' = WithStamp(pdfDoc, call.visualSignature)
  /\ pc' = "save"
  /\ UNCHANGED <<call, signatureDict, widgetDict, saved, pdfBuffer, match,
                 contentsKeyPos, contentsStart, contentsEnd, byteRange, md,
                 p7, rawSignature, hexSignature, result>>

\* Line 224: embedPng rejects the image bytes.
EmbedFails ==
  /\ pc = "stamp"
  /\ UNCHANGED OutsideSign
  /\ call.visualSignature.present /\ call.visualSignature.imagePng
  /\ Throw("embedPng failed")
  /\ UNCHANGED <<call, pdfDoc, signatureDict, widgetDict, saved, pdfBuffer,
                 match, contentsKeyPos, contentsStart, contentsEnd, byteRange,
                 md, p7, rawSignature, hexSignature>>

\* Lines 233-237: the one save(), copied into pdfBuffer.
Save ==
  /\ pc = "save"
  /\ UNCHANGED OutsideSign
  /\ \E s \in Serializations(signatureDict) :
       /\ saved' = s
       /\ pdfBuffer' = s.bytes
  /\ pc' = "locate"
  /\ UNCHANGED <<call, pdfDoc, signatureDict, widgetDict, match,
                 contentsKeyPos, contentsStart, contentsEnd, byteRange, md,
                 p7, rawSignature, hexSignature, result>>

\* Lines 239-249
LocatePlaceholder ==
  /\ pc = "locate"
  /\ UNCHANGED OutsideSign
  /\ LET m == PlaceholderExec(pdfBuffer)
     IN  IF ~m.found
         THEN /\ Throw("Could not find ByteRange placeholder.")
              /\ UNCHANGED match
         ELSE /\ match' = m
              /\ pc' = "contents"
              /\ UNCHANGED result
  /\ UNCHANGED <<call, pdfDoc, signatureDict, widgetDict, saved, pdfBuffer,
                 contentsKeyPos, contentsStart, contentsEnd, byteRange, md,
                 p7, rawSignature, hexSignature>>

\* Lines 251-264
FindContents ==
  /\ pc = "contents"
  /\ UNCHANGED OutsideSign
  /\ LET key   == FindContentsKey(pdfBuffer, match.index)
         start == ScanForOpen(pdfBuffer, key + 9)
     IN  IF key = -1
         THEN /\ Throw("Could not find /Contents key.")
              /\ UNCHANGED <<contentsKeyPos, contentsStart, contentsEnd>>
         ELSE /\ contentsKeyPos' = key
              /\ contentsStart' = start
              /\ contentsEnd' = BufIndexOf(pdfBuffer, <<">">>, start)
              /\ pc' = "range"
              /\ UNCHANGED result
  /\ UNCHANGED <<call, pdfDoc, signatureDict, widgetDict, saved, pdfBuffer,
                 match, byteRange, md, p7, rawSignature, hexSignature>>

\* Lines 266-271
DefineByteRange ==
  /\ pc = "range"
  /\ UNCHANGED OutsideSign
  /\ byteRange' = DefineByteRanges(pdfBuffer, contentsStart, contentsEnd)
  /\ pc' = "patch"
  /\ UNCHANGED <<call, pdfDoc, signatureDict, widgetDict, saved, pdfBuffer,
                 match, contentsKeyPos, contentsStart, contentsEnd, md, p7,
                 rawSignature, hexSignature, result>>

\* Lines 273-280
PatchByteRange ==
  /\ pc = "patch"
  /\ UNCHANGED OutsideSign
  /\ LET str == NewByteRangeStr(byteRange)
     IN  IF Len(str) > match.length
         THEN /\ Throw("ByteRange string exceeds placeholder size.")
              /\ UNCHANGED pdfBuffer
         ELSE /\ pdfBuffer' =
                   BufferCopy(str \o Repeat(" ", match.length - Len(str)),
                              pdfBuffer, match.index)
              /\ pc' = "sign"
              /\ UNCHANGED result
  /\ UNCHANGED <<call, pdfDoc, signatureDict, widgetDict, saved, match,
                 contentsKeyPos, contentsStart, contentsEnd, byteRange, md,
                 p7, rawSignature, hexSignature>>

\* Lines 282-312: the digest of the two spans, the SignedData, its DER
\* bytes in hex.
HashAndSign ==
  /\ pc = "sign"
  /\ UNCHANGED OutsideSign
  /\ LET p1 == Subarray(pdfBuffer, 0, byteRange[2])
         p2 == Subarray(pdfBuffer, byteRange[3], Len(pdfBuffer))
         signed == P7Sign(NewSignedData(call.credentials))
     IN  /\ md' = Sha256(p1 \o p2)
         /\ p7' = signed
         /\ \E n \in 1..MaxDerLen :
              /\ rawSignature' = ToDer(signed, n)
              /\ hexSignature' = BytesToHex(ToDer(signed, n))
  /\ pc' = "write"
  /\ UNCHANGED <<call, pdfDoc, signatureDict, widgetDict, saved, pdfBuffer,
                 match, contentsKeyPos, contentsStart, contentsEnd, byteRange,
                 result>>

\* Line 309: forge rejects the key or the certificate.
SignFails ==
  /\ pc = "sign"
  /\ UNCHANGED OutsideSign
  /\ Throw("p7.sign failed")
  /\ UNCHANGED <<call, pdfDoc, signatureDict, widgetDict, saved, pdfBuffer,
                 match, contentsKeyPos, contentsStart, contentsEnd, byteRange,
                 md, p7, rawSignature, hexSignature>>

\* The signature written from the '<' on.
SignatureTargetOnOpen(start) == start

\* Line 323: the target offset of the signature, contentsStart + 1.
SignatureTarget(start) == start + 1

\* Lines 314-324
WriteSignature ==
  /\ pc = "write"
  /\ UNCHANGED OutsideSign
  /\ LET availableSpace == AvailableSpace(contentsStart, contentsEnd)
     IN  IF Len(hexSignature) > availableSpace
         THEN /\ Throw("Signature size exceeds placeholder.")
              /\ UNCHANGED <<pdfBuffer, hexSignature>>
         ELSE LET padded == hexSignature
                      \o Repeat("0", availableSpace - Len(hexSignature))
                  out == BufferCopy(padded, pdfBuffer,
                                    SignatureTarget(contentsStart))
              IN  /\ hexSignature' = padded
                  /\ pdfBuffer' = out
                  /\ pc' = "done"
                  /\ result' = [kind |-> "returned", error |-> "",
                                bytes |-> out]
  /\ UNCHANGED <<call, pdfDoc, signatureDict, widgetDict, saved, match,
                 contentsKeyPos, contentsStart, contentsEnd, byteRange, md,
                 p7, rawSignature>>

Next ==
  \/ Load
  \/ LoadFails
  \/ BuildSignatureDict
  \/ AttachWidget
  \/ DrawStamp
  \/ EmbedFails
  \/ Save
  \/ LocatePlaceholder
  \/ FindContents
  \/ DefineByteRange
  \/ PatchByteRange
  \/ HashAndSign
  \/ SignFails
  \/ WriteSignature

Spec == Init /\ [][Next]_vars

\* No call of signPdf is under way.
NoCall == CHOOSE c \in Calls : TRUE

SignIdle ==
  /\ call = NoCall
  /\ pc = "idle"
  /\ pdfDoc = NoDoc
  /\ signatureDict = NewSignatureDict
  /\ widgetDict = NoWidget
  /\ saved = NotSaved
  /\ pdfBuffer = <<>>
  /\ match = NoMatch
  /\ contentsKeyPos = -1
  /\ contentsStart = -1
  /\ contentsEnd = -1
  /\ byteRange = <<0, 0, 0, 0>>
  /\ md = Sha256(<<>>)
  /\ p7 = NoSignedData
  /\ rawSignature = <<>>
  /\ hexSignature = <<>>
  /\ result = Pending

(***************************************************************************)
(* getExistingSignatures (lines 29-98): the documents it is given.         *)
(***************************************************************************)
\* Most fields a document of the model's inputs has.
MaxFields == 2

\* The page references of the inspected documents, in page order.
InsPages == <<"p1", "p2">>

\* A widget annotation: its /Rect as getRectangle() reports it, and its /P
\* ("none" when the widget has no /P; "gone" is a reference that is the
\* ref of no page of the document).
Widget(x, y, width, height, pageRef) ==
  [Rect |-> [x |-> x, y |-> y, width |-> width, height |-> height],
   P |-> pageRef]

\* What the /Contents hex string decodes to: bytes that forge cannot parse
\* (wellFormed FALSE), or a message with its certificates, each with the
\* common name of its subject ("none" when the subject has none).
Der(wellFormed, certificates) ==
  [wellFormed |-> wellFormed, certificates |-> certificates]

Certificate(cn) == [CN |-> cn]

NoDer == Der(FALSE, <<>>)

\* The /V entry of a field, as dict.get returns it: absent, an indirect
\* reference, or a direct dictionary whose /Contents is absent, a literal
\* string or a hex string.
NoValue == [kind |-> "absent", Contents |-> "absent", der |-> NoDer]

RefValue == [kind |-> "ref", Contents |-> "absent", der |-> NoDer]

DictValue(contents, der) ==
  [kind |-> "dict", Contents |-> contents, der |-> der]

Field(ft, widgets, value) ==
  [name |-> <<>>, FT |-> ft, widgets |-> widgets, V |-> value]

FieldShapes ==
  { Field("Tx", <<Widget(1, 2, 3, 4, "p1")>>, NoValue),
    Field("Sig", <<>>, NoValue),
    Field("Sig", <<Widget(5, 6, 7, 8, "none")>>, RefValue),
    Field("Sig", <<Widget(1, 1, 2, 2, "p2"), Widget(3, 3, 2, 2, "p1")>>,
          DictValue("hex", Der(TRUE, <<Certificate("Alice"),
                                       Certificate("Root CA")>>))),
    Field("Sig", <<Widget(9, 9, 1, 1, "gone")>>,
          DictValue("hex", Der(FALSE, <<>>))),
    Field("Sig", <<Widget(1, 2, 3, 4, "p1")>>, DictValue("absent", NoDer)),
    Field("Sig", <<Widget(1, 2, 3, 4, "p1")>>, DictValue("literal", NoDer)),
    Field("Sig", <<Widget(4, 3, 2, 1, "p2")>>,
          DictValue("hex", Der(TRUE, <<>>))),
    Field("Sig", <<Widget(4, 3, 2, 1, "p1")>>,
          DictValue("hex", Der(TRUE, <<Certificate("none")>>))) }

\* The partial field name of the i-th field.
FieldName(i) == <<"f">> \o ToDec(i)

NotAPdf == [valid |-> FALSE, pages |-> <<>>, fields |-> <<>>]

InsDocs ==
  { [valid |-> TRUE, pages |-> InsPages,
     fields |-> [i \in 1..Len(fs) |-> [fs[i] EXCEPT !.name = FieldName(i)]]] :
      fs \in UNION { [1..n -> FieldShapes] : n \in 0..MaxFields } }
  \cup {NotAPdf}

(***************************************************************************)
(* getExistingSignatures: its steps.                                       *)
(***************************************************************************)
\* Line 34: form.getFields().
GetFields(doc) == doc.fields

\* The results list left by an earlier call.
ResultsKept == insResults

\* Line 35: const results = []
NewResults == <<>>

\* A test that every field passes.
IsAnyField(field) == TRUE

\* Line 43: acroField.dict.get(FT) === PDFName.of("Sig")
IsSigField(field) == field.FT = "Sig"

\* Line 59: Array.prototype.findIndex over getPages() with p.ref === pageRef;
\* 0-based, -1 when no page has the reference.
FindIndex(pages, pageRef) ==
  IF \E i \in 1..Len(pages) : pages[i] = pageRef
  THEN Min({i \in 1..Len(pages) : pages[i] = pageRef}) - 1
  ELSE -1

\* Lines 47-61: the rectangle and the page of the first widget.
WidgetPlace(field, pages) ==
  IF Len(field.widgets) > 0
  THEN LET widget == field.widgets[1]
       IN  [rect |-> <<widget.Rect.x, widget.Rect.y, widget.Rect.width,
                       widget.Rect.height>>,
            pageIndex |-> IF widget.P # "none"
                          THEN FindIndex(pages, widget.P)
                          ELSE 0]
  ELSE [rect |-> <<0, 0, 0, 0>>, pageIndex |-> 0]

\* The signer name when the catch block leaves the default label in place.
SignerNameKeepingDefault(field) ==
  LET value == field.V
  IN  IF value.kind = "dict" /\ value.Contents = "hex"
         /\ value.der.wellFormed /\ value.der.certificates # <<>>
         /\ value.der.certificates[1].CN # "none"
      THEN value.der.certificates[1].CN
      ELSE "Unknown Signer"

\* Lines 63-91: the signer name.  forge.asn1.fromDer and messageFromAsn1
\* throw on bytes they cannot parse, and the catch block sets the label.
SignerName(field) ==
  LET value == field.V
  IN  IF value.kind # "dict" THEN "Unknown Signer"
      ELSE IF value.Contents # "hex" THEN "Unknown Signer"
      ELSE IF ~value.der.wellFormed THEN "Signed (Unverified)"
      ELSE LET signer == IF value.der.certificates # <<>>
                         THEN value.der.certificates[1]
                         ELSE Certificate("none")
           IN  IF signer.CN # "none" THEN signer.CN ELSE "Unknown Signer"

\* Line 93: the summary of one field.
Summary(field, pages) ==
  LET place == WidgetPlace(field, pages)
  IN  [fieldName |-> field.name, signerName |-> SignerName(field),
       pageIndex |-> place.pageIndex, rect |-> place.rect]

\* Lines 32-35: load, getForm, getFields.
InsLoad ==
  /\ insPc = "load"
  /\ insInput.valid
  /\ insFields' = GetFields(insInput)
  /\ insResults' = NewResults
  /\ insIdx' = 1
  /\ insPc' = "loop"
  /\ UNCHANGED <<insInput, insRun, insReturned, insFirst>>
  /\ UNCHANGED OutsideInspect

\* Line 32: PDFDocument.load rejects the bytes.
InsLoadFails ==
  /\ insPc = "load"
  /\ ~insInput.valid
  /\ insReturned' = [kind |-> "thrown", value |-> <<>>]
  /\ insPc' = "done"
  /\ UNCHANGED <<insInput, insRun, insFields, insIdx, insResults, insFirst>>
  /\ UNCHANGED OutsideInspect

\* Lines 37-95: one iteration of the loop.
InsField ==
  /\ insPc = "loop"
  /\ insIdx <= Len(insFields)
  /\ LET field == insFields[insIdx]
     IN  insResults' =
           IF IsSigField(field)
           THEN Append(insResults, Summary(field, insInput.pages))
           ELSE insResults
  /\ insIdx' = insIdx + 1
  /\ UNCHANGED <<insInput, insRun, insPc, insFields, insReturned, insFirst>>
  /\ UNCHANGED OutsideInspect

\* Line 97
InsReturn ==
  /\ insPc = "loop"
  /\ insIdx > Len(insFields)
  /\ insReturned' = [kind |-> "returned", value |-> insResults]
  /\ insPc' = "done"
  /\ UNCHANGED <<insInput, insRun, insFields, insIdx, insResults, insFirst>>
  /\ UNCHANGED OutsideInspect

\* The caller calls getExistingSignatures again with the same bytes.
InsAgain ==
  /\ insPc = "done"
  /\ insRun = 1
  /\ insFirst' = insReturned
  /\ insReturned' = NoneReturned
  /\ insRun' = 2
  /\ insPc' = "load"
  /\ UNCHANGED <<insInput, insFields, insIdx, insResults>>
  /\ UNCHANGED OutsideInspect

InitInspect ==
  /\ SignIdle
  /\ TwoIdle
  /\ RestIdle
  /\ insInput \in InsDocs
  /\ insRun = 1
  /\ insPc = "load"
  /\ insFields = <<>>
  /\ insIdx = 0
  /\ insResults = <<>>
  /\ insReturned = NoneReturned
  /\ insFirst = NoneReturned

NextInspect ==
  \/ InsLoad
  \/ InsLoadFails
  \/ InsField
  \/ InsReturn
  \/ InsAgain

SpecInspect == InitInspect /\ [][NextInspect]_vars

(***************************************************************************)
(* Two calls of signPdf at once.                                           *)
(***************************************************************************)
CallIds == 1..2

\* The two pdfBytes buffers of the caller: a two-page document with a
\* form, and a one-page document without one.
TwoInputs ==
  << CHOOSE d \in InputDocs :
       Len(d.pages) = 2 /\ d.acroForm.present /\ ~d.perms.present,
     CHOOSE d \in InputDocs : Len(d.pages) = 1 /\ ~d.acroForm.present >>

\* The arguments of one call, and what its environment decides: the length
\* of the DER bytes of its signature.
TwoArgs ==
  [input : 1..Len(TwoInputs), visualSignature : Visuals,
   lockDocument : BOOLEAN,
   credentials : {c \in CredentialChoices : c.certificates # <<>>},
   derLen : 1..MaxDerLen]

NoResult == [kind |-> "pending", error |-> "", bytes |-> <<>>, doc |-> NoDoc]

\* Lines 239-325, which run without an await: the placeholder located, the
\* range patched, the signature written.  What the call returns or throws.
PatchAndSign(buf, cred, n) ==
  LET m == PlaceholderExec(buf)
  IN  IF ~m.found
      THEN [kind |-> "thrown", bytes |-> <<>>,
            error |-> "Could not find ByteRange placeholder."]
      ELSE
      LET key == FindContentsKey(buf, m.index)
      IN  IF key = -1
          THEN [kind |-> "thrown", bytes |-> <<>>,
                error |-> "Could not find /Contents key."]
          ELSE
          LET start == ScanForOpen(buf, key + 9)
              end   == BufIndexOf(buf, <<">">>, start)
              str   == NewByteRangeStr(DefineByteRanges(buf, start, end))
          IN  IF Len(str) > m.length
              THEN [kind |-> "thrown", bytes |-> <<>>,
                    error |-> "ByteRange string exceeds placeholder size."]
              ELSE
              LET patched == BufferCopy(
                               str \o Repeat(" ", m.length - Len(str)),
                               buf, m.index)
                  hex == BytesToHex(ToDer(P7Sign(NewSignedData(cred)), n))
                  availableSpace == AvailableSpace(start, end)
              IN  IF Len(hex) > availableSpace
                  THEN [kind |-> "thrown", bytes |-> <<>>,
                        error |-> "Signature size exceeds placeholder."]
                  ELSE [kind |-> "returned", error |-> "",
                        bytes |-> BufferCopy(
                           hex \o Repeat("0", availableSpace - Len(hex)),
                           patched, SignatureTarget(start))]

\* The bytes save() writes for a call: the new signature dictionary after
\* the objects of the input, here none of which holds marker text.
SavedBytes(args) ==
  Serialize(LockSignature(NewSignatureDict, args.lockDocument),
            <<>>, "plain").bytes

\* A document object kept for all calls.
CachedDocument(k) == 1

\* Line 114: PDFDocument.load builds a new document object for the call.
NewDocument(k) == k

\* Line 237: Buffer.from(Uint8Array) copies into a new buffer of the call.
NewBuffer(k) == k

\* Lines 114-220, from the resolution of load to the next await.
TwoLoad(k) ==
  /\ twoCall[k].pc = "load"
  /\ LET args == twoCall[k].args
         id   == NewDocument(k)
         doc  == LockCatalog(twoBytes[args.input], args.lockDocument,
                             "sigRef")
     IN  IF PageMissing(doc, args.visualSignature)
         THEN /\ twoDocs' = [twoDocs EXCEPT ![id] = doc]
              /\ twoCall' = [twoCall EXCEPT
                    ![k].pc = "done", ![k].doc = id,
                    ![k].result = [kind |-> "thrown", bytes |-> <<>>,
                                   error |-> "TypeError: page is undefined",
                                   doc |-> NoDoc]]
         ELSE /\ twoDocs' = [twoDocs EXCEPT
                    ![id] = WithWidget(doc, args.visualSignature)]
              /\ twoCall' = [twoCall EXCEPT
                    ![k].doc = id,
                    ![k].pc = IF args.visualSignature.present
                                 /\ args.visualSignature.imagePng
                              THEN "embed" ELSE "save"]
  /\ UNCHANGED <<twoBytes, twoBufs>>
  /\ UNCHANGED OutsideTwo

\* Lines 224-234, from the resolution of embedPng to the call of save.
TwoEmbed(k) ==
  /\ twoCall[k].pc = "embed"
  /\ twoDocs' = [twoDocs EXCEPT
        ![twoCall[k].doc] = WithStamp(@, twoCall[k].args.visualSignature)]
  /\ twoCall' = [twoCall EXCEPT ![k].pc = "save"]
  /\ UNCHANGED <<twoBytes, twoBufs>>
  /\ UNCHANGED OutsideTwo

\* Lines 234-325, from the resolution of save to the return: the document
\* of the call is what save() wrote, the buffer is patched in place and
\* returned by reference.
TwoSave(k) ==
  /\ twoCall[k].pc = "save"
  /\ LET args == twoCall[k].args
         id   == NewBuffer(k)
         out  == PatchAndSign(SavedBytes(args), args.credentials,
                              args.derLen)
     IN  /\ twoBufs' = [twoBufs EXCEPT
               ![id] = IF out.kind = "returned" THEN out.bytes
                       ELSE SavedBytes(args)]
         /\ twoCall' = [twoCall EXCEPT
               ![k].pc = "done", ![k].buf = id,
               ![k].result = [kind |-> out.kind, error |-> out.error,
                              bytes |-> <<>>,
                              doc |-> twoDocs[twoCall[k].doc]]]
  /\ UNCHANGED <<twoBytes, twoDocs>>
  /\ UNCHANGED OutsideTwo

InitTwo ==
  /\ SignIdle
  /\ InspectorIdle
  /\ RestIdle
  /\ twoBytes = TwoInputs
  /\ twoCall \in [CallIds ->
                   [args : TwoArgs, pc : {"load"}, doc : {0}, buf : {0},
                    result : {NoResult}]]
  /\ twoDocs = [i \in CallIds |-> NoDoc]
  /\ twoBufs = [i \in CallIds |-> <<>>]

NextTwo ==
  \/ \E k \in CallIds : TwoLoad(k)
  \/ \E k \in CallIds : TwoEmbed(k)
  \/ \E k \in CallIds : TwoSave(k)

SpecTwo == InitTwo /\ [][NextTwo]_vars

(***************************************************************************)
(* Reading a signed buffer back, as a verifier does.                       *)
(***************************************************************************)
DigitValue(ch) == CHOOSE d \in 0..9 : Digits[d + 1] = ch

IsDigit(ch) == \E d \in 1..10 : Digits[d] = ch

\* The numbers of the array text "[n n n n]" read from offset i on: digits
\* build a number, white space ends it, "]" ends the array.  <<>> when the
\* text is no such array.
RECURSIVE ReadNumbers(_, _, _, _, _)
ReadNumbers(buf, i, cur, inNumber, acc) ==
  IF i >= Len(buf) THEN <<>>
  ELSE LET ch == buf[i + 1]
       IN  IF IsDigit(ch)
           THEN ReadNumbers(buf, i + 1, cur * 10 + DigitValue(ch), TRUE, acc)
           ELSE IF IsSpace(ch)
           THEN ReadNumbers(buf, i + 1, 0, FALSE,
                            IF inNumber THEN Append(acc, cur) ELSE acc)
           ELSE IF ch = "]"
           THEN (IF inNumber THEN Append(acc, cur) ELSE acc)
           ELSE <<>>

\* The /ByteRange array whose entry starts at offset pos of buf.
ReadByteRange(buf, pos) ==
  LET open == SkipSpaces(buf, pos + Len(ByteRangeKey))
  IN  IF OccursAt(buf, ByteRangeKey, pos) /\ OccursAt(buf, <<"[">>, open)
      THEN ReadNumbers(buf, open + 1, 0, FALSE, <<>>)
      ELSE <<>>

\* The bytes [start, start + length) of buf.
Span(buf, start, length) == Subarray(buf, start, start + length)

\* The bytes a /ByteRange [s1 l1 s2 l2] names in buf.
SignedBytes(buf, br) ==
  IF Len(br) = 4
  THEN Span(buf, br[1], br[2]) \o Span(buf, br[3], br[4])
  ELSE <<>>

Returned == pc = "done" /\ result.kind = "returned"

Thrown == pc = "done" /\ result.kind = "thrown"

\* The taxonomy of the errors a call ends with.
StructuralErrors ==
  {"Could not find ByteRange placeholder.", "Could not find /Contents key."}

CapacityErrors ==
  {"ByteRange string exceeds placeholder size.",
   "Signature size exceeds placeholder."}

LibraryErrors ==
  {"PDFDocument.load failed", "TypeError: page is undefined",
   "embedPng failed", "p7.sign failed"}

\* The "<" that opens the hex string after the chosen /Contents key, and
\* the ">" that closes it, found by their definition and not by the scan of
\* the source; -1 when there is none.
OpenAfterKey(buf, key) ==
  LET S == {i \in (key + Len(ContentsKey))..(Len(buf) - 1) : buf[i + 1] = "<"}
  IN  IF S = {} THEN -1 ELSE Min(S)

CloseAfter(buf, open) ==
  LET S == {i \in open..(Len(buf) - 1) : buf[i + 1] = ">"}
  IN  IF open = -1 \/ S = {} THEN -1 ELSE Min(S)

(***************************************************************************)
(* A document signed by signPdf, then inspected or signed again.           *)
(***************************************************************************)
\* The readings of the millisecond clock.
MaxClock == 2

Clock == 1..MaxClock

\* Line 189: `Signature-${Date.now()}`
SignatureFieldName(now) ==
  <<"S", "i", "g", "n", "a", "t", "u", "r", "e", "-">> \o ToDec(now)

\* The partial name of the text field of the input document.
TextFieldName == <<"T", "e", "x", "t", "1">>

\* The common name of the subject of a certificate.
SubjectCN(cert) ==
  CASE cert = "leaf" -> "Alice"
    [] cert = "ca1" -> "Issuing CA"
    [] OTHER -> "Root CA"

\* The arguments of a call and what its environment decides: the length of
\* the DER bytes and the reading of Date.now().
ResignArgs ==
  [visualSignature : Visuals, lockDocument : BOOLEAN,
   credentials : {c \in CredentialChoices : c.certificates # <<>>},
   derLen : 1..MaxDerLen, now : Clock]

\* One whole call of signPdf(pdfBytes, credentials, visualSignature,
\* lockDocument) on the document doc, whose objects save() writes as the
\* bytes pre in front of the new signature dictionary: what it returns or
\* throws, with the document it saved, the widget and the SignedData.
SignPdf(doc, pre, args) ==
  LET vs     == args.visualSignature
      locked == LockCatalog(doc, args.lockDocument, "sigRef")
      sd     == LockSignature(NewSignatureDict, args.lockDocument)
  IN  IF PageMissing(locked, vs)
      THEN [kind |-> "thrown", error |-> "TypeError: page is undefined",
            bytes |-> <<>>, doc |-> NoDoc, widget |-> NoWidget,
            p7 |-> NoSignedData]
      ELSE CHOOSE outcome \in
             { [kind |-> out.kind, error |-> out.error, bytes |-> out.bytes,
                doc |-> WithStamp(WithWidget(locked, vs), vs),
                widget |-> [NewWidgetDict(locked, vs) EXCEPT
                              !.T = SignatureFieldName(args.now)],
                p7 |-> P7Sign(NewSignedData(args.credentials))] :
               out \in { PatchAndSign(buf, args.credentials, args.derLen) :
                          buf \in { pre \o SigDictBytes(sd, "plain")
                                        \o EofMarker } } } : TRUE

\* The offset of the /ByteRange entry of the one signature of signed bytes.
ByteRangeOffset(bytes) == BufIndexOf(bytes, ByteRangeKey, 0)

\* The signature dictionary that PDFDocument.load reads from signed bytes:
\* the hex string of /Contents and the numbers of /ByteRange.
ParsedSignatureDict(bytes) ==
  LET open  == ScanForOpen(bytes, BufIndexOf(bytes, ContentsKey, 0))
      close == BufIndexOf(bytes, <<">">>, open)
  IN  [NewSignatureDict EXCEPT
         !.Contents = Subarray(bytes, open + 1, close),
         !.ByteRange = ReadByteRange(bytes, ByteRangeOffset(bytes))]

\* The document that PDFDocument.load builds from the bytes that a call
\* returned: the objects the call registered are now objects of the input,
\* "w0" the earlier widget and "sig0" the earlier signature dictionary.
EarlierRef(ref) ==
  IF ref = "widgetRef" THEN "w0" ELSE IF ref = "sigRef" THEN "sig0" ELSE ref

Reloaded(doc) ==
  [pages |-> [k \in 1..Len(doc.pages) |->
                [doc.pages[k] EXCEPT
                   !.Annots.items = [j \in 1..Len(@) |-> EarlierRef(@[j])]]],
   acroForm |-> [doc.acroForm EXCEPT
                   !.Fields.items = [j \in 1..Len(@) |-> EarlierRef(@[j])]],
   perms |-> [doc.perms EXCEPT !.DocMDP = EarlierRef(@)]]

\* What save() writes for the objects of a reloaded signed document, in
\* front of the new signature dictionary: every object again in the
\* writer's own layout, the earlier signature dictionary among them.
RewrittenObjects(bytes) ==
  SigDictBytes(ParsedSignatureDict(bytes), "plain") \o <<"\n">>

\* The /T of the field that a reference of /Fields of the reloaded document
\* points to.
FieldNameOf(ref, first) == IF ref = "w0" THEN first.widget.T ELSE TextFieldName

\* The signed document as getExistingSignatures meets it: the fields of
\* /Fields in order, the new field merged with its widget and with /V an
\* indirect reference to the signature dictionary, whose /Contents is the
\* hex string of the SignedData.
InspectedField(ref, first, wellFormed) ==
  IF ref = "widgetRef"
  THEN [name |-> first.widget.T, FT |-> first.widget.FT,
        widgets |-> << Widget(first.widget.Rect[1], first.widget.Rect[2],
                              first.widget.Rect[3] - first.widget.Rect[1],
                              first.widget.Rect[4] - first.widget.Rect[2],
                              first.widget.P) >>,
        V |-> [kind |-> "ref", Contents |-> "hex",
               der |-> Der(wellFormed,
                           [k \in 1..Len(first.p7.certificates) |->
                              Certificate(SubjectCN(first.p7.certificates[k]))])]]
  ELSE [name |-> TextFieldName, FT |-> FieldType(ref),
        widgets |-> << Widget(0, 0, 1, 1, first.doc.pages[1].ref) >>,
        V |-> NoValue]

InspectedDocument(first, wellFormed) ==
  [valid |-> TRUE,
   pages |-> [k \in 1..Len(first.doc.pages) |-> first.doc.pages[k].ref],
   fields |-> [j \in 1..Len(first.doc.acroForm.Fields.items) |->
                 InspectedField(first.doc.acroForm.Fields.items[j], first,
                                wellFormed)]]

NoOutcome ==
  [kind |-> "pending", error |-> "", bytes |-> <<>>, doc |-> NoDoc,
   widget |-> NoWidget, p7 |-> NoSignedData]

\* The first call, on the two-page document with a form.
ReSignFirst ==
  /\ rePc = "first"
  /\ \E out \in { SignPdf(TwoInputs[1], <<>>, reArgs[1]) } :
       /\ reFirst' = out
       /\ rePc' = IF out.kind = "returned" THEN "signed" ELSE "done"
  /\ UNCHANGED <<reArgs, reSecond>>
  /\ UNCHANGED <<signVars, insVars, twoVars, OutsideResign>>

\* The second call, on the bytes that the first returned.
ReSignSecond ==
  /\ rePc = "signed"
  /\ \E doc \in { Reloaded(reFirst.doc) },
        pre \in { RewrittenObjects(reFirst.bytes) } :
       reSecond' = SignPdf(doc, pre, reArgs[2])
  /\ rePc' = "done"
  /\ UNCHANGED <<reArgs, reFirst>>
  /\ UNCHANGED <<signVars, insVars, twoVars, OutsideResign>>

\* getExistingSignatures is called with the bytes that the first call
\* returned.  Whether forge.asn1.fromDer accepts the zero bytes that pad
\* the DER depends on the version of forge.
ReInspect ==
  /\ rePc = "signed"
  /\ \E wellFormed \in BOOLEAN :
       insInput' = InspectedDocument(reFirst, wellFormed)
  /\ insRun' = 1
  /\ insPc' = "load"
  /\ rePc' = "inspecting"
  /\ UNCHANGED <<insFields, insIdx, insResults, insReturned, insFirst>>
  /\ UNCHANGED <<reArgs, reFirst, reSecond>>
  /\ UNCHANGED <<signVars, twoVars, OutsideResign>>

InitResign ==
  /\ SignIdle
  /\ InspectorIdle
  /\ TwoIdle
  /\ P12Idle
  /\ AppIdle
  /\ \E first, second \in ResignArgs : reArgs = <<first, second>>
  /\ rePc = "first"
  /\ reFirst = NoOutcome
  /\ reSecond = NoOutcome

NextResign ==
  \/ ReSignFirst
  \/ ReSignSecond
  \/ ReInspect
  \/ InsLoad
  \/ InsField
  \/ InsReturn

SpecResign == InitResign /\ [][NextResign]_vars

(***************************************************************************)
(* SignatureModal.handleP12Parse (SignatureModal.tsx, lines 137-195): the  *)
(* chosen PKCS#12 file is opened, its bags are scanned for a certificate   *)
(* and a private key, and the identity handed to signPdf is built.         *)
(***************************************************************************)
MaxSafeContents == 2

MaxBags == 2

\* The bags a SafeContents can hold: a certificate bag (the signer's
\* certificate or the one of its issuer) or a bag of another type, here
\* the shrouded key bag.
SafeBags ==
  { [type |-> "certBag", value |-> "leaf"],
    [type |-> "certBag", value |-> "ca1"],
    [type |-> "pkcs8ShroudedKeyBag", value |-> "key"] }

SeqsUpTo(S, n) == UNION { [1..k -> S] : k \in 0..n }

\* The files the user can choose.  One does not open: wrong password or not
\* a PKCS#12 file (fromDer or pkcs12FromAsn1 throws, lines 145-146).
P12Files ==
  { NoFile } \cup
  { [opens |-> TRUE, safeContents |-> sc] :
      sc \in SeqsUpTo(SeqsUpTo(SafeBags, MaxBags), MaxSafeContents) }

RECURSIVE FlattenBags(_)
FlattenBags(safeContents) ==
  IF safeContents = <<>> THEN <<>>
  ELSE Head(safeContents) \o FlattenBags(Tail(safeContents))

\* Lines 172-175: p12.getBags({bagType}) collects the bags of the type over
\* all safeContents, in order.
GetBags(p12, bagType) ==
  SelectSeq(FlattenBags(p12.safeContents), LAMBDA b : b.type = bagType)

\* Lines 161-170: the common names of the subject and of the issuer.
IssuerCN(cert) ==
  CASE cert = "leaf" -> "Issuing CA"
    [] OTHER -> "Root CA"

\* Lines 180-188.
NewIdentity(cert, privateKey) ==
  [commonName |-> SubjectCN(cert),
   issuer |-> IssuerCN(cert),
   credentials |-> [privateKey |-> privateKey,
                    certificate |-> cert,
                    certificates |-> <<cert>>]]

\* Lines 190-194, the catch block.
P12Failed ==
  /\ error' = "Failed to open P12. Check your password or file format."
  /\ isLoading' = FALSE
  /\ p12Pc' = "failed"

\* Lines 138-143: the click on "Load", up to the await of arrayBuffer().
HandleP12Parse ==
  /\ p12Pc = "chosen"
  /\ isLoading' = TRUE
  /\ error' = "null"
  /\ p12Pc' = "reading"
  /\ UNCHANGED <<p12File, safeContentsIdx, safeBagIdx, certBag, identity,
                 p12SignedData>>
  /\ UNCHANGED OutsideP12

\* Lines 144-148: the bytes are decoded with the password.
P12Open ==
  /\ p12Pc = "reading"
  /\ IF p12File.opens
       THEN /\ p12Pc' = "scan"
            /\ safeContentsIdx' = 1
            /\ safeBagIdx' = 1
            /\ UNCHANGED <<error, isLoading>>
       ELSE /\ P12Failed
            /\ UNCHANGED <<safeContentsIdx, safeBagIdx>>
  /\ UNCHANGED <<p12File, certBag, identity, p12SignedData>>
  /\ UNCHANGED OutsideP12

\* Lines 149-156, one step of the loops: the break of line 153 ends the
\* loop over the bags of this SafeContents, and the loop over the
\* safeContents goes on with the next one.
P12Scan ==
  /\ p12Pc = "scan"
  /\ safeContentsIdx <= Len(p12File.safeContents)
  /\ LET safeBags == p12File.safeContents[safeContentsIdx]
     IN  IF safeBagIdx > Len(safeBags)
           THEN /\ safeContentsIdx' = safeContentsIdx + 1
                /\ safeBagIdx' = 1
                /\ UNCHANGED certBag
           ELSE IF safeBags[safeBagIdx].type = "certBag"
                  THEN /\ certBag' = safeBags[safeBagIdx]
                       /\ safeContentsIdx' = safeContentsIdx + 1
                       /\ safeBagIdx' = 1
                  ELSE /\ safeBagIdx' = safeBagIdx + 1
                       /\ UNCHANGED <<certBag, safeContentsIdx>>
  /\ UNCHANGED <<p12File, p12Pc, identity, error, isLoading, p12SignedData>>
  /\ UNCHANGED OutsideP12

\* Lines 158-189: after the loops.
P12Identity ==
  /\ p12Pc = "scan"
  /\ safeContentsIdx > Len(p12File.safeContents)
  /\ LET keyBags == GetBags(p12File, "pkcs8ShroudedKeyBag")
     IN  IF certBag = NoBag \/ keyBags = <<>>
           THEN /\ P12Failed
                /\ UNCHANGED identity
           ELSE /\ identity' = NewIdentity(certBag.value, keyBags[1].value)
                /\ isLoading' = FALSE
                /\ p12Pc' = "parsed"
                /\ UNCHANGED error
  /\ UNCHANGED <<p12File, safeContentsIdx, safeBagIdx, certBag,
                 p12SignedData>>
  /\ UNCHANGED OutsideP12

\* The identity's credentials reach signPdf (SignatureModal.tsx line 310,
\* App.tsx lines 124-125 and 221-231), which builds the SignedData from them
\* (part_000 lines 290-307).
P12Sign ==
  /\ p12Pc = "parsed"
  /\ p12SignedData' = NewSignedData(identity.credentials)
  /\ p12Pc' = "signed"
  /\ UNCHANGED <<p12File, safeContentsIdx, safeBagIdx, certBag, identity,
                 error, isLoading>>
  /\ UNCHANGED OutsideP12

InitP12 ==
  /\ SignIdle
  /\ InspectorIdle
  /\ TwoIdle
  /\ ResignIdle
  /\ AppIdle
  /\ p12File \in P12Files
  /\ p12Pc = "chosen"
  /\ safeContentsIdx = 0
  /\ safeBagIdx = 0
  /\ certBag = NoBag
  /\ identity = NoIdentity
  /\ error = "null"
  /\ isLoading = FALSE
  /\ p12SignedData = <<>>

NextP12 ==
  \/ HandleP12Parse
  \/ P12Open
  \/ P12Scan
  \/ P12Identity
  \/ P12Sign

SpecP12 == InitP12 /\ [][NextP12]_vars

(***************************************************************************)
(* The App component (App.tsx).  A handler runs without interruption up to *)
(* its next await; what follows the await, an image's onload and a timer's *)
(* callback run later, each as a step of its own, in any order.  A button  *)
(* that is not rendered or is disabled cannot be clicked, and no click or  *)
(* drop reaches the page under an open modal.                              *)
(***************************************************************************)
MaxDrops == 1

MaxImgLoads == 2

MaxExports == 2

\* The PDF files the user can drop: A carries a signature, B carries none.
Files == {"A", "B"}

\* What getExistingSignatures returns for the bytes of a file.
Found(f) == IF f = "A" THEN << "A.Signature1" >> ELSE <<>>

\* An identifier that none of those in use has (uuidv4 of line 163, and the
\* identity of a call or of an image).
FreshId(used) ==
  CHOOSE i \in 1..(Cardinality(used) + 1) :
    i \notin used /\ \A j \in 1..(i - 1) : j \in used

IdsOf(records) == { r.id : r \in records }

\* Lines 430-457: neither the signature modal nor the modal shown during an
\* export is open.
PageReachable == ~modalOpened /\ ~isExporting

\* Lines 69-71, handleDrop up to its first await.  The Dropzone is rendered
\* only while no file is shown (line 389).
HandleDrop(droppedFile) ==
  /\ PageReachable
  /\ file = "null"
  /\ Cardinality(drops) < MaxDrops
  /\ file' = droppedFile
  /\ drops' = drops \cup {[id |-> FreshId(IdsOf(drops)),
                           file |-> droppedFile, at |-> "arrayBuffer"]}
  /\ UNCHANGED <<pdfBytes, signatures, existingSignatures, isSigning,
                 modalOpened, currentSignature, signingCredentials,
                 shouldLock, isExporting, imgLoads, exports>>
  /\ UNCHANGED OutsideApp

\* Lines 72-80: arrayBuffer() has resolved.
DropRead(d) ==
  /\ d \in drops
  /\ d.at = "arrayBuffer"
  /\ pdfBytes' = d.file
  /\ signatures' = <<>>
  /\ signingCredentials' = "null"
  /\ shouldLock' = FALSE
  /\ drops' = (drops \ {d}) \cup {[d EXCEPT !.at = "getExistingSignatures"]}
  /\ UNCHANGED <<file, existingSignatures, isSigning, modalOpened,
                 currentSignature, isExporting, imgLoads, exports>>
  /\ UNCHANGED OutsideApp

\* Lines 80-91: getExistingSignatures has resolved or rejected.
DropScan(d) ==
  /\ d \in drops
  /\ d.at = "getExistingSignatures"
  /\ \E resolved \in BOOLEAN :
       existingSignatures' =
         IF resolved THEN Found(d.file) ELSE existingSignatures
  /\ drops' = drops \ {d}
  /\ UNCHANGED <<file, pdfBytes, signatures, isSigning, modalOpened,
                 currentSignature, signingCredentials, shouldLock,
                 isExporting, imgLoads, exports>>
  /\ UNCHANGED OutsideApp

\* Lines 94-113, behind the Sign button (lines 347-358), which is rendered
\* with a file and disabled once a signature is placed.
StartSigning ==
  /\ PageReachable
  /\ file # "null"
  /\ ~isSigning
  /\ signatures = <<>>
  /\ IF currentSignature = "null"
       THEN modalOpened' = TRUE /\ UNCHANGED isSigning
       ELSE isSigning' = TRUE /\ UNCHANGED modalOpened
  /\ UNCHANGED <<file, pdfBytes, signatures, existingSignatures,
                 currentSignature, signingCredentials, shouldLock,
                 isExporting, drops, imgLoads, exports>>
  /\ UNCHANGED OutsideApp

\* Line 350: the same button while in signing mode.
CancelSigning ==
  /\ PageReachable
  /\ file # "null"
  /\ isSigning
  /\ signatures = <<>>
  /\ isSigning' = FALSE
  /\ UNCHANGED <<file, pdfBytes, signatures, existingSignatures, modalOpened,
                 currentSignature, signingCredentials, shouldLock,
                 isExporting, drops, imgLoads, exports>>
  /\ UNCHANGED OutsideApp

\* Lines 115-120, behind the Replace button (lines 338-346).
ReplaceSignature ==
  /\ PageReachable
  /\ file # "null"
  /\ currentSignature # "null"
  /\ signatures' = <<>>
  /\ modalOpened' = TRUE
  /\ isSigning' = FALSE
  /\ UNCHANGED <<file, pdfBytes, existingSignatures, currentSignature,
                 signingCredentials, shouldLock, isExporting, drops,
                 imgLoads, exports>>
  /\ UNCHANGED OutsideApp

\* Lines 122-140, called by the modal, which then closes (SignatureModal.tsx
\* lines 310-311 and 345-346).  identityData is absent in draw mode; in
\* certificate mode the box that locks the document is left unticked.
HandleSignatureCreated(identityData) ==
  /\ modalOpened
  /\ currentSignature' = "png"
  /\ IF identityData # "none"
       THEN /\ signingCredentials' = identityData
            /\ shouldLock' = FALSE
       ELSE /\ signingCredentials' = "null"
            /\ shouldLock' = FALSE
  /\ isSigning' = TRUE
  /\ modalOpened' = FALSE
  /\ UNCHANGED <<file, pdfBytes, signatures, existingSignatures, isExporting,
                 drops, imgLoads, exports>>
  /\ UNCHANGED OutsideApp

\* Line 432: the modal is closed without a signature.
CloseModal ==
  /\ modalOpened
  /\ modalOpened' = FALSE
  /\ UNCHANGED <<file, pdfBytes, signatures, existingSignatures, isSigning,
                 currentSignature, signingCredentials, shouldLock,
                 isExporting, drops, imgLoads, exports>>
  /\ UNCHANGED OutsideApp

\* Lines 142-155: a click on the page in signing mode (PdfViewer.tsx lines
\* 62-73) creates an image whose onload runs later.
HandleAddSignature ==
  /\ PageReachable
  /\ file # "null"
  /\ isSigning
  /\ currentSignature # "null"
  /\ signatures = <<>>
  /\ Cardinality(imgLoads) < MaxImgLoads
  /\ imgLoads' = imgLoads \cup {[id |-> FreshId(IdsOf(imgLoads)),
                                 dataUrl |-> currentSignature]}
  /\ UNCHANGED <<file, pdfBytes, signatures, existingSignatures, isSigning,
                 modalOpened, currentSignature, signingCredentials,
                 shouldLock, isExporting, drops, exports>>
  /\ UNCHANGED OutsideApp

\* A list that holds newSig after what was placed before it.
PlacedAfter(prev, newSig) == Append(prev, newSig)

\* Line 174: setSignatures([newSig]).
Placed(prev, newSig) == << newSig >>

\* Lines 155-181: the image's onload.
ImgLoaded(img) ==
  /\ img \in imgLoads
  /\ signatures' =
       Placed(signatures,
              [id |-> FreshId({signatures[k].id : k \in 1..Len(signatures)}),
               rotation |-> 0,
               dataUrl |-> img.dataUrl])
  /\ isSigning' = FALSE
  /\ imgLoads' = imgLoads \ {img}
  /\ UNCHANGED <<file, pdfBytes, existingSignatures, modalOpened,
                 currentSignature, signingCredentials, shouldLock,
                 isExporting, drops, exports>>
  /\ UNCHANGED OutsideApp

\* Lines 183-190: the viewer reports a change of a signature it shows.
HandleUpdateSignature(id, rotation) ==
  /\ PageReachable
  /\ file # "null"
  /\ \E k \in 1..Len(signatures) :
       signatures[k].id = id /\ signatures[k].rotation # rotation
  /\ signatures' = [k \in 1..Len(signatures) |->
                      IF signatures[k].id = id
                        THEN [signatures[k] EXCEPT !.rotation = rotation]
                        ELSE signatures[k]]
  /\ UNCHANGED <<file, pdfBytes, existingSignatures, isSigning, modalOpened,
                 currentSignature, signingCredentials, shouldLock,
                 isExporting, drops, imgLoads, exports>>
  /\ UNCHANGED OutsideApp

\* Lines 192-194: the viewer's remove button of a signature it shows.
HandleRemoveSignature ==
  /\ PageReachable
  /\ file # "null"
  /\ signatures # <<>>
  /\ signatures' = <<>>
  /\ UNCHANGED <<file, pdfBytes, existingSignatures, isSigning, modalOpened,
                 currentSignature, signingCredentials, shouldLock,
                 isExporting, drops, imgLoads, exports>>
  /\ UNCHANGED OutsideApp

\* A Save button that takes a click whatever isExporting is.
SaveAlwaysEnabled == file # "null" /\ ~modalOpened

\* Lines 359-366: the Save button is rendered with a file, and a Button
\* with loading={isExporting} takes no click.
SaveEnabled == file # "null" /\ ~modalOpened /\ ~isExporting

\* Lines 196-212, handleDownload up to its first await.
HandleDownload ==
  /\ SaveEnabled
  /\ pdfBytes # "null"
  /\ signatures # <<>>
  /\ Cardinality(exports) < MaxExports
  /\ isExporting' = TRUE
  /\ exports' = exports \cup
       {[id |-> FreshId(IdsOf(exports)),
         processingBuffer |-> pdfBytes,
         signatureToSign |-> signatures[1].id,
         credentials |-> signingCredentials,
         at |-> "signing",
         fields |-> 0,
         downloaded |-> FALSE]}
  /\ UNCHANGED <<file, pdfBytes, signatures, existingSignatures, isSigning,
                 modalOpened, currentSignature, signingCredentials,
                 shouldLock, drops, imgLoads>>
  /\ UNCHANGED OutsideApp

\* Lines 213-284: the signing or the stamping has resolved and downloadFile
\* was called, or one of the awaits has rejected; the finally block sets
\* the timer.  The one call of signPdf adds one signature field, the visual
\* flow adds none.
ExportSettles(e) ==
  /\ e \in exports
  /\ e.at = "signing"
  /\ \E resolved \in BOOLEAN :
       exports' = (exports \ {e}) \cup
         {[e EXCEPT !.at = "timer",
                    !.downloaded = resolved,
                    !.fields = IF resolved /\ e.credentials # "null"
                                 THEN 1 ELSE 0]}
  /\ UNCHANGED <<file, pdfBytes, signatures, existingSignatures, isSigning,
                 modalOpened, currentSignature, signingCredentials,
                 shouldLock, isExporting, drops, imgLoads>>
  /\ UNCHANGED OutsideApp

\* Lines 285-289: the timer's callback, one second later.
ExportTimer(e) ==
  /\ e \in exports
  /\ e.at = "timer"
  /\ isExporting' = FALSE
  /\ exports' = exports \ {e}
  /\ UNCHANGED <<file, pdfBytes, signatures, existingSignatures, isSigning,
                 modalOpened, currentSignature, signingCredentials,
                 shouldLock, drops, imgLoads>>
  /\ UNCHANGED OutsideApp

\* Lines 367-382: the close button.
CloseFile ==
  /\ PageReachable
  /\ file # "null"
  /\ file' = "null"
  /\ pdfBytes' = "null"
  /\ signatures' = <<>>
  /\ currentSignature' = "null"
  /\ signingCredentials' = "null"
  /\ shouldLock' = FALSE
  /\ existingSignatures' = <<>>
  /\ UNCHANGED <<isSigning, modalOpened, isExporting, drops, imgLoads,
                 exports>>
  /\ UNCHANGED OutsideApp

InitApp ==
  /\ SignIdle
  /\ InspectorIdle
  /\ TwoIdle
  /\ ResignIdle
  /\ P12Idle
  /\ AppIdle

ExportSettled == \E e \in exports : ExportSettles(e)

ExportTimedOut == \E e \in exports : ExportTimer(e)

NextApp ==
  \/ \E f \in Files : HandleDrop(f)
  \/ \E d \in drops : DropRead(d)
  \/ \E d \in drops : DropScan(d)
  \/ StartSigning
  \/ CancelSigning
  \/ ReplaceSignature
  \/ \E identityData \in {"none", "credentials"} :
       HandleSignatureCreated(identityData)
  \/ CloseModal
  \/ HandleAddSignature
  \/ \E img \in imgLoads : ImgLoaded(img)
  \/ \E id \in 1..MaxImgLoads, rotation \in {0, 90} :
       HandleUpdateSignature(id, rotation)
  \/ HandleRemoveSignature
  \/ HandleDownload
  \/ ExportSettled
  \/ ExportTimedOut
  \/ CloseFile

SpecApp == InitApp /\ [][NextApp]_vars

\* A promise that is awaited settles and a timer that was set fires.
SpecAppFair ==
  /\ SpecApp
  /\ WF_vars(ExportSettled)
  /\ WF_vars(ExportTimedOut)

(***************************************************************************)
(* C1.  For every successful call, the message-digest attribute of the     *)
(* embedded SignedData equals the SHA-256 digest of the two spans of the   *)
(* returned buffer that the /ByteRange written into it names.              *)
(* The source computes that digest (md) but never hands it to p7, whose    *)
(* content is the empty string: TLC finds this violated.                   *)
(***************************************************************************)
C1_DigestMatchesByteRange ==
  Returned =>
    MessageDigestOf(p7) = Sha256(SignedBytes(result.bytes, byteRange))

(***************************************************************************)
(* C2.  The /ByteRange written by the patch is [0, a, b, n - b], a the     *)
(* offset of the "<" that opens the Contents hex string, b the offset of   *)
(* its closing ">" plus 1, n the buffer length: the spans start at byte 0, *)
(* end at the last byte, and leave out exactly the hex string with its     *)
(* delimiters.                                                             *)
(***************************************************************************)
C2_ByteRangeBracketsContents ==
  LET n == Len(pdfBuffer)
      a == OpenAfterKey(pdfBuffer, contentsKeyPos)
      b == CloseAfter(pdfBuffer, a) + 1
      covered == {i \in 0..(n - 1) :
                    \/ byteRange[1] <= i /\ i < byteRange[1] + byteRange[2]
                    \/ byteRange[3] <= i /\ i < byteRange[3] + byteRange[4]}
  IN  /\ (pc \in {"sign", "write"} /\ a # -1 /\ b # 0) =>
           /\ byteRange = <<0, a, b, n - b>>
           /\ ReadByteRange(pdfBuffer, match.index) = <<0, a, b, n - b>>
      /\ Returned =>
           /\ a # -1 /\ b # 0
           /\ byteRange = <<0, a, b, n - b>>
           /\ pdfBuffer[a + 1] = "<" /\ pdfBuffer[b] = ">"
           /\ (0..(n - 1)) \ covered = a..(b - 1)
           /\ \A i \in (a + 1)..(b - 2) : pdfBuffer[i + 1] # ">"

\* A call returned a buffer in which save() wrote the new signature
\* dictionary in plain text and the range brackets its hex string.
C2_Witness ==
  /\ Returned
  /\ saved.kind = "plain"
  /\ byteRange[2] = saved.sigOpen
  /\ byteRange[3] = saved.sigOpen + SignatureLength + 2

(***************************************************************************)
(* C3.  The returned buffer is as long as the buffer save() produced:      *)
(* neither patch adds or removes a byte.                                   *)
(***************************************************************************)
C3_LengthInvariant ==
  /\ saved.kind # "none" => Len(pdfBuffer) = Len(saved.bytes)
  /\ Returned => Len(result.bytes) = Len(saved.bytes)

\* A call returned a buffer that both patches changed.
C3_Witness ==
  /\ Returned
  /\ Subarray(result.bytes, match.index, match.index + match.length)
       # Subarray(saved.bytes, match.index, match.index + match.length)
  /\ Subarray(result.bytes, contentsStart + 1, contentsEnd)
       # Subarray(saved.bytes, contentsStart + 1, contentsEnd)

(***************************************************************************)
(* C4.  When the hex encoding of the DER signature is longer than the      *)
(* reserved Contents container, the call fails with a capacity error and   *)
(* returns no bytes; a returned buffer holds the whole hex encoding inside *)
(* the container.                                                          *)
(***************************************************************************)
C4_CapacityEnforced ==
  LET hex == BytesToHex(rawSignature)
      interior == contentsEnd - contentsStart - 1
  IN  /\ (/\ pc = "done"
          /\ rawSignature # <<>>
          /\ contentsStart # -1 /\ contentsEnd # -1
          /\ Len(hex) > interior) =>
            /\ result.kind = "thrown"
            /\ result.error \in CapacityErrors
            /\ result.bytes = <<>>
      /\ Returned =>
            /\ Len(hex) <= interior
            /\ Subarray(result.bytes, contentsStart + 1,
                        contentsStart + 1 + Len(hex)) = hex
            /\ result.bytes[contentsStart + 1] = "<"
            /\ result.bytes[contentsEnd + 1] = ">"

\* A signature longer than the container was refused.
C4_Witness ==
  /\ Thrown
  /\ result.error = "Signature size exceeds placeholder."
  /\ contentsStart # -1 /\ contentsEnd # -1
  /\ Len(BytesToHex(rawSignature)) > contentsEnd - contentsStart - 1

(***************************************************************************)
(* C5.  The call fails unless the placeholder pattern occurs exactly once  *)
(* in the serialised buffer: with no occurrence and with two or more it    *)
(* ends with an error.  The source takes the leftmost match and never      *)
(* counts: TLC finds a call that returns a buffer although the pattern     *)
(* occurred twice.                                                         *)
(***************************************************************************)
C5_PlaceholderExactlyOnce ==
  (pc = "done" /\ saved.kind # "none"
     /\ Cardinality(PlaceholderMatches(saved.bytes)) # 1) =>
    result.kind = "thrown"

(***************************************************************************)
(* C6.  When no "<" follows the chosen /Contents key, or no ">" follows    *)
(* that "<", the call fails with a structural (marker not found) error.    *)
(* The source has no such check: the call goes on to hash and sign and     *)
(* ends with the capacity error of step 13.                                *)
(***************************************************************************)
C6_MissingMarkerIsStructural ==
  (/\ pc = "done"
   /\ contentsKeyPos # -1
   /\ contentsStart = -1 \/ contentsEnd = -1
   /\ result.error \notin LibraryErrors) =>
    /\ result.kind = "thrown"
    /\ result.error \in StructuralErrors

(***************************************************************************)
(* C7.  A stage that fails ends the call with an error and no buffer; a    *)
(* buffer is returned only when the real /ByteRange has replaced the       *)
(* sentinel of the new signature dictionary and the signature hex has been *)
(* written into its Contents.  Stated for the serialisations that hold the *)
(* new dictionary in plain text; it fails when text of the input document  *)
(* matches the placeholder pattern first (C5).                             *)
(***************************************************************************)
C7_ReturnedOnlyWhenPatched ==
  /\ Thrown => result.bytes = <<>>
  /\ (Returned /\ saved.kind = "plain") =>
       /\ PlaceholderMatchEnd(result.bytes, saved.sigByteRange) = -1
       /\ ReadByteRange(result.bytes, saved.sigByteRange) = byteRange
       /\ Subarray(result.bytes, saved.sigOpen + 1,
                   saved.sigOpen + 1 + Len(BytesToHex(rawSignature)))
            = BytesToHex(rawSignature)

(***************************************************************************)
(* C8.  With lockDocument the output has the signature's one-element       *)
(* /Reference (TransformMethod DocMDP) and the catalog's /Perms/DocMDP     *)
(* pointing to the signature dictionary; without it the new signature has  *)
(* no /Reference and the catalog's /Perms is what the input document had   *)
(* (none when it had none).                                                *)
(***************************************************************************)
C8_LockAtomic ==
  Returned =>
    /\ call.lockDocument =>
         /\ Len(signatureDict.Reference) = 1
         /\ signatureDict.Reference[1].TransformMethod = "DocMDP"
         /\ pdfDoc.perms = [present |-> TRUE, DocMDP |-> "sigRef"]
    /\ ~call.lockDocument =>
         /\ signatureDict.Reference = <<>>
         /\ pdfDoc.perms = call.pdfDoc.perms

\* C8 as first stated: without lockDocument the catalog of the output has
\* no /Perms/DocMDP at all.
C8_AsStated ==
  Returned =>
    /\ call.lockDocument =>
         /\ Len(signatureDict.Reference) = 1
         /\ signatureDict.Reference[1].TransformMethod = "DocMDP"
         /\ pdfDoc.perms = [present |-> TRUE, DocMDP |-> "sigRef"]
    /\ ~call.lockDocument =>
         /\ signatureDict.Reference = <<>>
         /\ ~pdfDoc.perms.present

\* A locked call returned, on a document that an earlier signature had
\* locked already.
C8_Witness ==
  /\ Returned
  /\ call.lockDocument
  /\ call.pdfDoc.perms.present
  /\ pdfDoc.perms.DocMDP = "sigRef"

(***************************************************************************)
(* C9.  After every successful call the form's /SigFlags is 3, whether the *)
(* form existed before (with any /SigFlags or none) or was created.        *)
(***************************************************************************)
C9_SigFlagsThree ==
  Returned =>
    /\ pdfDoc.acroForm.present
    /\ pdfDoc.acroForm.SigFlags = Flags(3)

\* A call returned on a document whose form had /SigFlags 1.
C9_Witness ==
  /\ Returned
  /\ call.pdfDoc.acroForm.present
  /\ call.pdfDoc.acroForm.SigFlags = Flags(1)

(***************************************************************************)
(* C10.  The widget reference is appended once at the end of the target    *)
(* page's /Annots and once at the end of the form's /Fields, the arrays    *)
(* (and the form) being created when absent; the entries that were there   *)
(* stay in place and in order, the other pages are untouched, and an       *)
(* unsigned document ends with exactly one signature field.                *)
(***************************************************************************)
SigFieldCount(fields) ==
  Cardinality({k \in 1..Len(fields.items) : FieldType(fields.items[k]) = "Sig"})

C10_WidgetAppendedOnce ==
  Returned =>
    LET idx == TargetPageIndex(call.visualSignature)
        was == call.pdfDoc
    IN  /\ Len(pdfDoc.pages) = Len(was.pages)
        /\ \A k \in 1..Len(was.pages) :
             IF k = idx + 1
             THEN /\ pdfDoc.pages[k].Annots.present
                  /\ pdfDoc.pages[k].Annots.items
                       = was.pages[k].Annots.items \o <<"widgetRef">>
             ELSE pdfDoc.pages[k].Annots = was.pages[k].Annots
        /\ pdfDoc.acroForm.present
        /\ pdfDoc.acroForm.Fields.present
        /\ pdfDoc.acroForm.Fields.items
             = was.acroForm.Fields.items \o <<"widgetRef">>
        /\ SigFieldCount(was.acroForm.Fields) = 0 =>
             SigFieldCount(pdfDoc.acroForm.Fields) = 1

\* A call returned on a document that had a field and, on the second page,
\* an empty /Annots; the widget went to the second page.
C10_Witness ==
  /\ Returned
  /\ TargetPageIndex(call.visualSignature) = 1
  /\ call.pdfDoc.acroForm.Fields.items = <<"tx1">>
  /\ pdfDoc.acroForm.Fields.items = <<"tx1", "widgetRef">>
  /\ pdfDoc.pages[1].Annots.items = <<"a1">>

(***************************************************************************)
(* getExistingSignatures: what it reports.                                 *)
(***************************************************************************)
InsDone == insPc = "done" /\ insReturned.kind = "returned"

\* The fields of the inspected document whose /FT is Sig, in the order of
\* the document.
SigFieldsOf(doc) == SelectSeq(doc.fields, LAMBDA f : f.FT = "Sig")

CannotExtract(field) ==
  \/ field.V.kind # "dict"
  \/ field.V.Contents # "hex"
  \/ ~field.V.der.wellFormed
  \/ field.V.der.certificates = <<>>
  \/ field.V.der.certificates[1].CN = "none"

\* Decoding the field's /Contents throws inside the try block.
DecodeThrows(field) ==
  field.V.kind = "dict" /\ field.V.Contents = "hex" /\ ~field.V.der.wellFormed

\* C12 as stated: every signature field whose signer name cannot be
\* extracted gets one and the same label, and the call does not throw.
C12_AsStated ==
  /\ InsDone =>
       LET sigs == SigFieldsOf(insInput)
       IN  \A i, j \in 1..Len(sigs) :
             (CannotExtract(sigs[i]) /\ CannotExtract(sigs[j])) =>
               insReturned.value[i].signerName = insReturned.value[j].signerName
  /\ (insPc = "done" /\ insInput.valid) => insReturned.kind = "returned"

\* C12: a signature field whose signer name cannot be extracted is
\* reported with the label "Signed (Unverified)" when decoding its
\* /Contents throws and with the label "Unknown Signer" otherwise, and no
\* decode error escapes the call.
C12_TwoLabels ==
  /\ InsDone =>
       LET sigs == SigFieldsOf(insInput)
       IN  \A i \in 1..Len(sigs) :
             CannotExtract(sigs[i]) =>
               insReturned.value[i].signerName =
                 IF DecodeThrows(sigs[i]) THEN "Signed (Unverified)"
                 ELSE "Unknown Signer"
  /\ (insPc = "done" /\ insInput.valid) => insReturned.kind = "returned"

\* A document with a malformed signature and a signature without a value
\* has been inspected.
C12_Witness ==
  /\ InsDone
  /\ \E i, j \in 1..Len(insReturned.value) :
       /\ DecodeThrows(SigFieldsOf(insInput)[i])
       /\ SigFieldsOf(insInput)[j].V.kind = "absent"
       /\ insReturned.value[i].signerName = "Signed (Unverified)"
       /\ insReturned.value[j].signerName = "Unknown Signer"

\* The field has no widget, or its first widget has no /P, or its /P is
\* the reference of no page.
NoPageFor(field, pages) ==
  \/ field.widgets = <<>>
  \/ field.widgets[1].P = "none"
  \/ \A k \in 1..Len(pages) : pages[k] # field.widgets[1].P

\* C13: a signature field with no widget, with a widget without page
\* reference, or with a page reference that matches no page is reported
\* with pageIndex 0 (and the zero rectangle when it has no widget); no
\* reported pageIndex is negative.
C13_PageIndexFallsBackToZero ==
  InsDone =>
    LET sigs == SigFieldsOf(insInput)
    IN  \A i \in 1..Len(sigs) :
          /\ insReturned.value[i].pageIndex >= 0
          /\ NoPageFor(sigs[i], insInput.pages) =>
                insReturned.value[i].pageIndex = 0
          /\ sigs[i].widgets = <<>> =>
                insReturned.value[i].rect = <<0, 0, 0, 0>>

\* C16: the second call of getExistingSignatures on the same bytes returns
\* (or throws) what the first call did, and no step of either call changes
\* the input bytes.
C16_InspectionIdempotent ==
  /\ []((insRun = 2 /\ insPc = "done") => insReturned = insFirst)
  /\ [][insInput' = insInput]_vars

\* Both calls have returned, with at least one summary.
C16_Witness ==
  /\ insRun = 2
  /\ InsDone
  /\ insFirst.kind = "returned"
  /\ Len(insFirst.value) > 0
  /\ Len(insReturned.value) > 0

(***************************************************************************)
(* signPdf: the order of its stages and the frame of its two patches.      *)
(***************************************************************************)
\* The stages of signPdf in the order of the source text: the placeholder
\* is injected in build and attach, the document serialised in save, the
\* byte range computed in locate, contents and range, patched in patch,
\* the digest and the signature made in sign, the signature written in
\* write.
StageOrder ==
  <<"load", "build", "attach", "stamp", "save", "locate", "contents",
    "range", "patch", "sign", "write", "done">>

StageRank(stage) == CHOOSE k \in 1..Len(StageOrder) : StageOrder[k] = stage

\* C14: every step of signPdf moves to the next stage of the fixed order
\* (or ends the call by throwing), so that no stage is repeated or
\* revisited; the serialised bytes are produced in the save stage only,
\* hence once; the buffer is changed only by that serialisation and, after
\* it, by the two patches; and a buffer is returned only by the step that
\* writes the signature.
C14_StagesInOrder ==
  [][/\ StageRank(pc') > StageRank(pc)
     /\ pc' # "done" => StageRank(pc') = StageRank(pc) + 1
     /\ saved' # saved => pc = "save"
     /\ pdfBuffer' # pdfBuffer => pc \in {"save", "patch", "write"}
     /\ result' # result =>
          /\ pc' = "done"
          /\ result'.kind = "returned" => pc = "write"]_vars

\* A call has gone through every stage and returned the signed buffer.
C14_Witness ==
  /\ pc = "done"
  /\ result.kind = "returned"
  /\ saved.kind = "plain"
  /\ result.bytes # saved.bytes

\* The call has built and signed its SignedData.
HasSigned == pc \in {"write", "done"} /\ p7 # NoSignedData

\* C17: the SignedData embeds the leaf certificate and every certificate of
\* credentials.certificates, and has exactly one signer info: it names the
\* leaf certificate and the private key, uses SHA-256, and carries the
\* three authenticated attributes content-type, message-digest and
\* signing-time.
C17_SignedDataContents ==
  HasSigned =>
    LET cred == call.credentials
        embedded == {p7.certificates[k] : k \in 1..Len(p7.certificates)}
    IN  /\ cred.certificate \in embedded
        /\ \A k \in 1..Len(cred.certificates) :
              cred.certificates[k] \in embedded
        /\ Len(p7.signers) = 1
        /\ p7.signers[1].certificate = cred.certificate
        /\ p7.signers[1].key = cred.privateKey
        /\ p7.signers[1].digestAlgorithm = "sha256"
        /\ Len(p7.signers[1].authenticatedAttributes) = 3
        /\ {p7.signers[1].authenticatedAttributes[k].type : k \in 1..3}
             = {"contentType", "messageDigest", "signingTime"}

\* A call with a chain of two certificates has signed.
C17_Witness ==
  /\ HasSigned
  /\ Len(call.credentials.certificates) = 2
  /\ Len(p7.certificates) = 3

\* The '<' and the '>' of a container were found.
ContainerLocated == contentsStart >= 0 /\ contentsEnd > contentsStart

\* The number of bytes strictly between the '<' and the '>'.
InteriorWidth == contentsEnd - contentsStart - 1

\* C18: with the container located, the signature is rejected for
\* capacity only when its hex text is longer than the interior width, so a
\* hex text as long as the interior is accepted; and in a returned buffer
\* the interior is the signature hex followed by '0' characters only, up
\* to the '>'.
C18_RejectsOnlyBeyondInterior ==
  /\ (Thrown /\ result.error = "Signature size exceeds placeholder."
         /\ ContainerLocated) =>
       Len(BytesToHex(rawSignature)) > InteriorWidth
  /\ Returned =>
       Subarray(result.bytes, contentsStart + 1, contentsEnd) =
         BytesToHex(rawSignature)
           \o Repeat("0", InteriorWidth - Len(BytesToHex(rawSignature)))

\* The text "/ByteRange [0 a b c]" of the range computed by the call.
ByteRangeText ==
  <<"/", "B", "y", "t", "e", "R", "a", "n", "g", "e", " ", "[">>
    \o ToDec(byteRange[1]) \o <<" ">> \o ToDec(byteRange[2]) \o <<" ">>
    \o ToDec(byteRange[3]) \o <<" ">> \o ToDec(byteRange[4]) \o <<"]">>

\* The /ByteRange patch has been applied and the signature is not yet
\* written.
ByteRangePatched == pc \in {"sign", "write"}

\* C19: after the /ByteRange patch the bytes of the matched placeholder
\* are the text "/ByteRange [0 a b c]" followed by spaces up to the width
\* of the placeholder, and every byte outside the match is as save() wrote
\* it; the patch is applied only when the text is no longer than the
\* placeholder, and the call fails with the size error only when it is
\* longer.
C19_PatchCoversPlaceholderOnly ==
  /\ ByteRangePatched =>
       /\ Len(ByteRangeText) <= match.length
       /\ Len(pdfBuffer) = Len(saved.bytes)
       /\ Subarray(pdfBuffer, match.index, match.index + match.length) =
            ByteRangeText \o Repeat(" ", match.length - Len(ByteRangeText))
       /\ \A i \in 0..(Len(pdfBuffer) - 1) :
            (i < match.index \/ i >= match.index + match.length) =>
              pdfBuffer[i + 1] = saved.bytes[i + 1]
  /\ (Thrown /\ result.error = "ByteRange string exceeds placeholder size.")
       => /\ Len(ByteRangeText) > match.length
          /\ pdfBuffer = saved.bytes

\* The patch has been applied with at least one space of padding and with
\* bytes on both sides of the placeholder.
C19_Witness ==
  /\ ByteRangePatched
  /\ Len(ByteRangeText) < match.length
  /\ match.index > 0
  /\ match.index + match.length < Len(pdfBuffer)
  /\ pdfBuffer # saved.bytes

\* The bytes of the two spans of the byte range in a buffer.
DigestedSpans(buf) ==
  Subarray(buf, 0, byteRange[2]) \o Subarray(buf, byteRange[3], Len(buf))

\* C20: the step that writes the signature changes no byte at or before
\* the '<' nor at or after the '>' of the container; the digest is computed
\* in the stage after the /ByteRange patch and in no other; and the two
\* spans of the byte range in the returned buffer are the very bytes that
\* were hashed.
C20_DigestedSpansUntouched ==
  /\ [][(pc = "write" /\ pdfBuffer' # pdfBuffer) =>
          /\ Len(pdfBuffer') = Len(pdfBuffer)
          /\ \A i \in 0..(Len(pdfBuffer) - 1) :
               (i <= contentsStart \/ i >= contentsEnd) =>
                 pdfBuffer'[i + 1] = pdfBuffer[i + 1]]_vars
  /\ [][md' # md => (pc = "sign" /\ md' = Sha256(DigestedSpans(pdfBuffer)))]_vars
  /\ [](Returned => md = Sha256(DigestedSpans(result.bytes)))

\* A buffer has been returned whose signature differs from the placeholder
\* zeros and whose digested spans lie on both sides of the container.
C20_Witness ==
  /\ Returned
  /\ result.bytes # saved.bytes
  /\ byteRange[2] > 0
  /\ byteRange[4] > 0
  /\ Subarray(result.bytes, contentsStart + 1, contentsEnd) #
       Repeat("0", InteriorWidth)

(***************************************************************************)
(* Two calls of signPdf at once: what each returns.                        *)
(***************************************************************************)
\* What a call with these arguments returns, or throws, when it is the
\* only call: the steps of signPdf one after the other on the document of
\* its input.
Alone(args) ==
  LET vs  == args.visualSignature
      doc == LockCatalog(TwoInputs[args.input], args.lockDocument, "sigRef")
  IN  IF PageMissing(doc, vs)
      THEN [kind |-> "thrown", error |-> "TypeError: page is undefined",
            bytes |-> <<>>, doc |-> NoDoc]
      ELSE LET out == PatchAndSign(SavedBytes(args), args.credentials,
                                   args.derLen)
           IN  [kind |-> out.kind, error |-> out.error, bytes |-> out.bytes,
                doc |-> WithStamp(WithWidget(doc, vs), vs)]

\* What call k has returned or thrown: the document that save() wrote and
\* the bytes that the returned buffer holds now.
ResultOf(k) ==
  [twoCall[k].result EXCEPT
     !.bytes = IF twoCall[k].result.kind = "returned"
               THEN twoBufs[twoCall[k].buf] ELSE <<>>]

\* C15: whatever the order in which the awaited steps of two calls
\* resolve, a call that has ended has the result it has when it runs
\* alone, and keeps it while the other call goes on; and no step changes
\* the bytes of an input buffer.
C15_CallsIndependent ==
  /\ [](\A k \in DOMAIN twoCall :
          twoCall[k].pc = "done" => ResultOf(k) = Alone(twoCall[k].args))
  /\ [][twoBytes' = twoBytes]_vars

\* Both calls were given the same input buffer with different arguments,
\* the second ended while the first was waiting for its image, and both
\* have returned a buffer.
C15_Witness ==
  /\ twoCall # <<>>
  /\ twoCall[1].args.input = twoCall[2].args.input
  /\ twoCall[1].args.lockDocument # twoCall[2].args.lockDocument
  /\ twoCall[1].args.visualSignature.imagePng
  /\ ~twoCall[2].args.visualSignature.present
  /\ twoCall[1].pc = "done" /\ twoCall[2].pc = "done"
  /\ twoCall[1].result.kind = "returned"
  /\ twoCall[2].result.kind = "returned"
  /\ twoCall[1].result.doc # twoCall[2].result.doc

(***************************************************************************)
(* signPdf: the /Contents key, the widget, earlier signatures.             *)
(***************************************************************************)
\* The offsets at which the text /Contents occurs in the serialised bytes.
ContentsKeyOffsets ==
  {i \in 0..(Len(saved.bytes) - 1) : OccursAt(saved.bytes, ContentsKey, i)}

\* C21: the /Contents key that signPdf uses is the nearest occurrence of
\* /Contents before the placeholder match; when none precedes the match it
\* is the first occurrence after it; and signPdf fails with the /Contents
\* error exactly when the text occurs nowhere.
C21_NearestContentsKey ==
  /\ contentsKeyPos # -1 =>
       LET before == {i \in ContentsKeyOffsets : i < match.index}
           after  == {i \in ContentsKeyOffsets : i > match.index}
       IN  IF before # {}
           THEN contentsKeyPos \in before
                /\ \A i \in before : i <= contentsKeyPos
           ELSE contentsKeyPos \in after
                /\ \A i \in after : i >= contentsKeyPos
  /\ (Thrown /\ result.error = "Could not find /Contents key.")
       => ContentsKeyOffsets = {}
  /\ (match.found /\ pc # "contents" /\ ContentsKeyOffsets = {})
       => (Thrown /\ result.error = "Could not find /Contents key.")

\* Two occurrences precede the match and the later one was taken.
C21_Witness ==
  /\ contentsKeyPos # -1
  /\ contentsKeyPos < match.index
  /\ \E i \in ContentsKeyOffsets : i < contentsKeyPos

\* The widget has been attached.
WidgetAttached == widgetDict # NoWidget

\* The stamp step is over and the document has gone to save().
StampDone == pc = "save" \/ saved # NotSaved

\* Everything drawn on the pages of the document, page by page.
\* C22: with a placement [x, y, w, h] the widget's /Rect is
\* [x, y, x+w, y+h], the widget is on the page at pageIndex, and an image,
\* when supplied, is drawn once on that page at (x, y) with width w and
\* height h and nowhere else; without a placement the /Rect is
\* [0, 0, 0, 0], the widget is on page 0 and nothing is drawn.
C22_WidgetRectAndStamp ==
  LET vs == call.visualSignature
      x == vs.rect[1]
      y == vs.rect[2]
      w == vs.rect[3]
      h == vs.rect[4]
      target == IF vs.present THEN vs.pageIndex + 1 ELSE 1
  IN  /\ WidgetAttached =>
           /\ widgetDict.Rect =
                IF vs.present THEN <<x, y, x + w, y + h>> ELSE <<0, 0, 0, 0>>
           /\ widgetDict.P = pdfDoc.pages[target].ref
           /\ \A k \in 1..Len(pdfDoc.pages) :
                (\E j \in 1..Len(pdfDoc.pages[k].Annots.items) :
                    pdfDoc.pages[k].Annots.items[j] = "widgetRef")
                  <=> k = target
      /\ (WidgetAttached /\ StampDone) =>
           \A k \in 1..Len(pdfDoc.pages) :
             pdfDoc.pages[k].drawn =
               IF vs.present /\ vs.imagePng /\ k = target
               THEN << [x |-> x, y |-> y, width |-> w, height |-> h] >>
               ELSE <<>>

\* A call with a placement and an image on the second page has drawn the
\* stamp.
C22_Witness ==
  /\ WidgetAttached
  /\ StampDone
  /\ call.visualSignature.present
  /\ call.visualSignature.pageIndex = 1
  /\ pdfDoc.pages[2].drawn # <<>>
  /\ pdfDoc.pages[1].drawn = <<>>

\* The second call has returned the bytes of the twice signed document.
SignedAgain == rePc = "done" /\ reSecond.kind = "returned"

\* The offsets that the /ByteRange of the one signature of bytes covers.
CoveredOffsets(bytes) ==
  LET br == ReadByteRange(bytes, ByteRangeOffset(bytes))
  IN  {i \in 0..(Len(bytes) - 1) :
         \/ (i >= br[1] /\ i < br[1] + br[2])
         \/ (i >= br[3] /\ i < br[3] + br[4])}

\* C23: when signPdf signs a document that already carries a signature,
\* every byte that the earlier signature's /ByteRange covers is in the
\* output at the same offset.
C23_EarlierSignedBytesKept ==
  SignedAgain =>
    \A i \in CoveredOffsets(reFirst.bytes) :
      /\ i < Len(reSecond.bytes)
      /\ reSecond.bytes[i + 1] = reFirst.bytes[i + 1]

\* C24: getExistingSignatures on the bytes that signPdf returned reports,
\* for the new field, the common name of the leaf certificate as signer
\* name.
C24_RoundTripSignerName ==
  (rePc = "inspecting" /\ InsDone) =>
    \E k \in 1..Len(insReturned.value) :
      /\ insReturned.value[k].fieldName = reFirst.widget.T
      /\ insReturned.value[k].signerName =
           SubjectCN(reArgs[1].credentials.certificate)

\* C25: the name that signPdf gives the new field differs from the name of
\* every field that the document already has, the field of an earlier
\* call among them.
C25_NewFieldNameIsFresh ==
  (rePc = "done" /\ reSecond.widget # NoWidget) =>
    LET earlier == Reloaded(reFirst.doc).acroForm.Fields.items
    IN  \A j \in 1..Len(earlier) :
          FieldNameOf(earlier[j], reFirst) # reSecond.widget.T


(***************************************************************************)
(* C26.  With the credentials that SignatureModal builds from a P12 file,  *)
(* the certificate list of the SignedData holds each certificate once: the *)
(* leaf is not embedded twice.                                             *)
(* The modal sets certificates to [cert], the leaf itself, and signPdf     *)
(* adds the leaf and then every entry of certificates.                     *)
(***************************************************************************)
C26_EachCertificateOnce ==
  p12Pc = "signed" =>
    \A i, j \in 1..Len(p12SignedData.certificates) :
      p12SignedData.certificates[i] = p12SignedData.certificates[j] => i = j

(***************************************************************************)
(* C27.  handleP12Parse uses the first certificate bag met when the        *)
(* safeContents are scanned in order and the bags of each in order, and    *)
(* stops scanning once it is found; it reports an error when the file has  *)
(* no certificate bag or no private key.                                   *)
(* The break leaves the inner loop only: the scan goes on and a later      *)
(* SafeContents' first certificate bag replaces the one already found.     *)
(***************************************************************************)
C27_FirstCertBagUsed ==
  LET certBags == GetBags(p12File, "certBag")
      keyBags == GetBags(p12File, "pkcs8ShroudedKeyBag")
  IN  /\ p12Pc \in {"parsed", "signed"} =>
           /\ certBags # <<>>
           /\ identity.credentials.certificate = certBags[1].value
      /\ (p12Pc \in {"failed", "parsed", "signed"}
            /\ (certBags = <<>> \/ keyBags = <<>>)) =>
           /\ error # "null"
           /\ identity = NoIdentity

(***************************************************************************)
(* C28.  Whatever the order of file drops, of the close action and of the  *)
(* completions of the reads and scans that handleDrop awaits, once nothing *)
(* is pending pdfBytes and existingSignatures are those of the file shown, *)
(* and are null and empty when no file is loaded; and Save never signs the *)
(* bytes of a file other than the one shown.                               *)
(* What follows an await in handleDrop writes its results without asking   *)
(* whether its file is still the one shown.                                *)
(***************************************************************************)
C28_StateBelongsToFileShown ==
  /\ drops = {} =>
       IF file = "null"
         THEN pdfBytes = "null" /\ existingSignatures = <<>>
         ELSE pdfBytes = file /\ existingSignatures \in {<<>>, Found(file)}
  /\ \A e \in exports : e.at = "signing" => e.processingBuffer = file

(***************************************************************************)
(* C29.  At most one export is in progress: while isExporting is true the  *)
(* Save button starts no second handleDownload, and after every export,    *)
(* whether it succeeded or failed, isExporting returns to false.           *)
(***************************************************************************)
C29_OneExportAtATime ==
  /\ [](Cardinality(exports) <= 1)
  /\ [][isExporting => IdsOf(exports') \subseteq IdsOf(exports)]_vars
  /\ (isExporting ~> ~isExporting)

\* An export has settled and its timer has not fired: everything Save needs
\* is there, and the button is still loading.
C29_Witness ==
  /\ isExporting
  /\ file # "null"
  /\ pdfBytes # "null"
  /\ signatures # <<>>
  /\ \E e \in exports : e.at = "timer"

(***************************************************************************)
(* C30.  The signatures list holds at most one placed signature in every   *)
(* reachable state, late image-load callbacks included, and each export    *)
(* signs a single field.                                                   *)
(***************************************************************************)
C30_AtMostOnePlaced ==
  /\ Len(signatures) <= 1
  /\ \A e \in exports : e.fields <= 1
  /\ \A e \in exports :
       (e.at = "timer" /\ e.downloaded /\ e.credentials # "null") =>
         e.fields = 1

\* A late onload has run while a signature was placed: its signature got
\* an identifier that the one it replaced did not have.
C30_Witness ==
  /\ Len(signatures) = 1
  /\ signatures[1].id = 2

====
